---- MODULE Spec2Model ----
(***************************************************************************)
(* claude-deck: the press classifier (src/input/handler.rs), the           *)
(* cooperative main loop (src/lib.rs, App::run_main_loop), the edge        *)
(* tracker of the device manager (src/device/manager.rs) and the GIF       *)
(* animator with its background loader (src/display/gif.rs, src/lib.rs).   *)
(*                                                                         *)
(* Spec     the main loop: one action per step of an iteration, the time   *)
(*          that passes inside the awaits is the action Advance.           *)
(* SpecGif  the GIF animator: rendering, background loading, tick.         *)
(* SpecLive     the main loop with no button input, with fairness.         *)
(* SpecGifLive  the GIF animator with fairness of tick and of the loader.  *)
(* SpecDecode   process_input over every (event_type, state) byte pair.    *)
(* SpecInput    poll_event fed with raw reports: decoder and edge tracker. *)
(* SpecState    AppState under the model knob and the status poll.         *)
(* SpecLock     the animator with its mutexes and blocking fetches.        *)
(* SpecKnob     handle_encoder_press with its debounce window.             *)
(* SpecScreen   the animator under lock changes and the device link.       *)
(* SpecPolled   the main loop with button input, with fairness.            *)
(*                                                                         *)
(* Time.  Instants are kept as "elapsed since" timers.  Timers that the    *)
(* code compares with millisecond intervals are kept in milliseconds and   *)
(* saturate at the interval they are compared with; press durations are    *)
(* compared with LONG_PRESS_DURATION (whole seconds) only and are kept at  *)
(* one-second resolution, saturating at LONG_PRESS_DURATION.               *)
(***************************************************************************)
EXTENDS Integers, Sequences, FiniteSets, TLC

VARIABLES
    \* ---- App::run_main_loop (src/lib.rs)
    pc,                 \* position inside one loop iteration
    event,              \* Option<InputEvent> returned by poll_event
    device,             \* self.device.is_some()
    connected,          \* AppState::connected
    screen_locked,      \* AppState::screen_locked
    focused_app,        \* AppState::focused_app
    pending_app_check,  \* pending_app_check.is_some()
    app_tasks,          \* get_focused_app tasks spawned and not yet joined
    last_device_write,  \* ms since last_device_write, saturating at device_cooldown
    last_gif_tick,      \* ms since last_gif_tick, saturating at gif_tick_interval
    \* ---- DeviceManager (src/device/manager.rs)
    input_state,        \* InputState::buttons, the edge tracker
    held,               \* the buttons physically held down (hardware)
    \* ---- InputHandler (src/input/handler.rs)
    button_press_times, \* HashMap<u8, Instant>: button -> whole seconds since the press
    long_press_fired,   \* HashSet<u8>
    \* ---- observation of the step just taken (history, not program state)
    handled,            \* the event given to handle_event by the last step, with the lock flag
    lastUp,             \* what handle_button_up did in the last step
    acted,              \* button actions executed by the last step
    wrote,              \* device writes issued by the last step
    sinceWrite,         \* ms since the last write actually issued, saturating at device_cooldown
    link_error,         \* where the last step got a disconnected error from the hardware link
    \* ---- observation per press (history)
    downHandled,        \* a ButtonDown(b) was handled since the last handled ButtonUp(b)
    pollFires,          \* check_long_press fires for b since the last handled ButtonDown(b)
    firedSinceUp,       \* check_long_press fired for b since the last handled ButtonUp(b)
    polledPast,         \* check_long_press ran with b eligible and past the threshold in this press
    \* ---- GifAnimator (src/display/gif.rs) and its loader (src/lib.rs)
    gif_cache,          \* HashMap<String, Option<CachedGif>>: url -> [ok, frames]
    animations,         \* HashMap<u8, ButtonAnimation>: button -> cursor
    loading,            \* HashSet<String>
    tasks,              \* url -> number of background fetch tasks in flight
    gif_cfg,            \* button -> the gif_url of its ButtonConfig (NoUrl if none)
    panicked,           \* tick indexed the frame list out of range
    gif_op,             \* the animator operation of the last step and, for a tick, its TickResults (history)
    \* ---- DeviceManager driven by raw HID reports (src/device/manager.rs)
    edge_buttons,       \* InputState::buttons, all BUTTON_COUNT slots
    edge_encoders,      \* InputState::encoders
    sample,             \* the last HID report: <<event_type, state>>
    decoded,            \* the DeviceInput process_input made of it
    polled,             \* what poll_event returned last
    polls,              \* reports read since DeviceManager::connect, saturating at MaxPolls (history)
    \* ---- AppState (src/state/manager.rs) and the status poll (src/lib.rs)
    app_state,          \* the AppState fields the status poll and the model knob touch
    state_op,           \* the last operation on AppState, what it returned and whether it modified a field (history)
    set_model_arg,      \* the name the last step passed to set_model, None if it made no call (history)
    \* ---- the mutexes around the animation caches (src/display/gif.rs, src/display/buttons.rs)
    animator_mutex,     \* holder of GIF_ANIMATOR's Mutex: "free", "main" or "task"
    static_mutex,       \* holder of load_gif_image's GIF_CACHE Mutex: "free" or "main"
    main_at,            \* where the main loop is inside a render, a tick or start_gif_background_loading
    main_button,        \* the button the main loop is rendering
    static_cache,       \* the URLs in load_gif_image's GIF_CACHE
    task_result,        \* the fetch result of the background task that holds the animator's mutex
    \* ---- InputHandler's encoder debounce (src/input/handler.rs)
    last_encoder_press, \* HashMap<u8, Instant>: encoder -> ms since the recorded press, saturating at ENCODER_DEBOUNCE
    enc_op,             \* the encoder event handled by the last step and whether its action was performed (history)
    since_action        \* encoder -> ms since its press action was last performed, saturating at ENCODER_DEBOUNCE (history)

loopVars  == <<pc, event, device, connected, screen_locked, focused_app,
               pending_app_check, app_tasks, last_device_write, last_gif_tick,
               input_state, held, button_press_times, long_press_fired>>
stepVars  == <<handled, lastUp, acted, wrote, sinceWrite, link_error>>
pressVars == <<downHandled, pollFires, firedSinceUp, polledPast>>
gifVars   == <<gif_cache, animations, loading, tasks, gif_cfg, panicked, gif_op>>
inputVars == <<edge_buttons, edge_encoders, sample, decoded, polled, polls>>
appVars   == <<app_state, state_op, set_model_arg>>
lockVars  == <<animator_mutex, static_mutex, main_at, main_button, static_cache,
               task_result>>
knobVars  == <<last_encoder_press, enc_op, since_action>>
vars      == <<loopVars, stepVars, pressVars, gifVars, inputVars, appVars, lockVars,
               knobVars>>

----------------------------------------------------------------------------
\* Program constants

\* const LONG_PRESS_DURATION: Duration = Duration::from_secs(2), in seconds
LONG_PRESS_DURATION == 2
\* let device_cooldown = Duration::from_millis(20), in ms
device_cooldown == 20
\* let gif_tick_interval = Duration::from_millis(16), in ms
gif_tick_interval == 16
\* sleep(Duration::from_millis(50)) before a web-UI redraw, in ms
redraw_delay == 50
\* sleep(Duration::from_secs(5)) before a reconnect attempt, in seconds
reconnect_delay == 5
\* delay_numer.max(30): the floor of a frame's delay, in ms
min_frame_delay == 30
\* Duration::from_millis(100): the delay of the still-image fallback, in ms
still_delay == 100

\* Bounds of the model
\* the short time step of Advance, in ms
MsStep == 10
\* the long time step of Advance, in ms
SecStep == 1000

\* the time step of the animator's clock, in ms
GifStep == 30
\* the most frames a fetched GIF decodes to
MaxFrames == 2
\* the count of reports since a connect saturates here
MaxPolls == 3
\* the most models a configuration lists
MaxModels == 3
\* ms of one step of the encoder debounce clock
DebounceStep == 100

\* The logical buttons of the model, and the applications that get focus.
Buttons == {6, 7}
Apps    == {"Terminal", "Slack"}

\* The buttons that may be configured with a gif_url, the URLs, and the frame
\* delays (ms) a GIF file may declare.
GifButtons == {0, 1}
Urls       == {"a", "b"}
NoUrl      == ""
RawDelays  == {10, 40}

NoEvent == [kind |-> "none"]
NoUp    == [kind |-> "none"]
NoWrite == [src |-> "none"]
\* An operation on the animator: its name, the URL it stores, the frames it pushes.
GifOp(op, url, frames) == [op |-> op, url |-> url, frames |-> frames]
NoGifOp == GifOp("none", NoUrl, <<>>)

Min(a, b) == IF a < b THEN a ELSE b

----------------------------------------------------------------------------
\* Profiles (src/profiles/mod.rs)

\* ProfileManager::find_profile_for_app over generate_default_profiles():
\* "slack" matches Slack, "claude" is the wildcard profile.
find_profile_for_app(app) == IF app = "Slack" THEN "slack" ELSE "claude"

\* claude_button_config: the label, which is the Custom action name.
claude_button_config(b) ==
    CASE b = 0 -> "ACCEPT" [] b = 1 -> "REJECT" [] b = 2 -> "STOP"
      [] b = 3 -> "RETRY"  [] b = 4 -> "REWIND" [] b = 5 -> "TRUST"
      [] b = 6 -> "TAB"    [] b = 7 -> "MIC"    [] b = 8 -> "ENTER"
      [] b = 9 -> "CLEAR"  [] OTHER -> "?"

\* ProfileManager::get_button_config: the action of button b for an app.
get_button_config(app, b) ==
    IF find_profile_for_app(app) = "slack"
    THEN [kind |-> "Emoji", name |-> "emoji"]
    ELSE [kind |-> "Custom", name |-> claude_button_config(b)]

\* InputHandler::find_mic_buttons: the buttons whose action is Custom("MIC").
find_mic_buttons(app) ==
    {b \in Buttons : get_button_config(app, b) = [kind |-> "Custom", name |-> "MIC"]}

----------------------------------------------------------------------------
\* InputHandler (src/input/handler.rs)

\* device_to_logical_button: Some(id) for id < 10, None otherwise.
device_to_logical_button(id) == IF id < 10 THEN {id} ELSE {}

\* handle_event, ButtonDown: button_press_times.insert(button, Instant::now()).
InsertPress(times, b) ==
    [x \in (DOMAIN times) \cup {b} |-> IF x = b THEN 0 ELSE times[x]]

\* handle_button_up: button_press_times.remove(&button).
RemovePress(times, b) == [x \in (DOMAIN times) \ {b} |-> times[x]]

PressDurationMissingIsLong(times, b) ==
    IF b \in DOMAIN times THEN times[b] ELSE LONG_PRESS_DURATION
\* handle_button_up: .remove(&button).map(|t| t.elapsed()).unwrap_or_default()
press_duration(times, b) == IF b \in DOMAIN times THEN times[b] ELSE 0

AlreadyFiredIgnored(fired, b) == FALSE
\* handle_button_up: let already_fired = self.long_press_fired.remove(&button)
already_fired(fired, b) == b \in fired

RemoveFiredForgotten(fired, b) == fired
\* handle_button_up: the set after long_press_fired.remove(&button)
RemoveFired(fired, b) == fired \ {b}

\* handle_button_up: let is_long_press = press_duration >= LONG_PRESS_DURATION
is_long_press(d) == d >= LONG_PRESS_DURATION

\* handle_claude_button: the operation the match arm runs ("none": the
\* default arm, which only logs).
handle_claude_button(action_name, long) ==
    CASE action_name = "ACCEPT" -> "send_accept"
      [] action_name = "REJECT" -> "send_reject"
      [] action_name = "STOP"   -> "send_stop"
      [] action_name = "RETRY"  -> "send_retry"
      [] action_name = "REWIND" -> "send_rewind"
      [] action_name = "TRUST"  -> "send_trust"
      [] action_name = "TAB" /\ ~long -> "send_tab"
      [] action_name = "TAB" /\ long  -> "open_new_session"
      [] action_name = "MIC" /\ ~long -> "trigger_voice_input"
      [] action_name = "ENTER"  -> "send_enter"
      [] action_name = "CLEAR"  -> "send_clear_command"
      [] OTHER -> "none"

\* handle_button_up, "Execute the action based on config".
ExecuteAction(app, b, long) ==
    LET config == get_button_config(app, b) IN
    IF config.kind = "Custom" THEN handle_claude_button(config.name, long)
    ELSE "send_text"

\* check_long_press: the MIC buttons whose hold action fires in this call.
LongPressDue(times, fired, app) ==
    {b \in find_mic_buttons(app) :
        /\ b \notin fired
        /\ b \in DOMAIN times
        /\ times[b] >= LONG_PRESS_DURATION}

----------------------------------------------------------------------------
\* DeviceManager::poll_event, ButtonStateChange (src/device/manager.rs)

\* process_input for a main button code: all slots false but the button's.
ButtonVector(b, pressed) == [i \in Buttons |-> i = b /\ pressed]

\* The slots whose sample differs from the stored state ("if i < buttons.len()"
\* skips the slots the stored vector does not have); the scan returns at the
\* first of them, the slots before it are rewritten with their own value.
ChangedSlots(state, v) == {i \in (DOMAIN v) \cap (DOMAIN state) : v[i] # state[i]}
FirstChanged(state, v) ==
    CHOOSE i \in ChangedSlots(state, v) : \A j \in ChangedSlots(state, v) : i <= j

EdgeEvent(state, v) ==
    IF ChangedSlots(state, v) = {} THEN NoEvent
    ELSE LET i == FirstChanged(state, v) IN
         [kind |-> IF v[i] THEN "down" ELSE "up", button |-> i]

EdgeStateWhole(state, v) ==
    [i \in DOMAIN state |-> IF i \in DOMAIN v THEN v[i] ELSE state[i]]
EdgeStateForgotten(state, v) == state
EdgeState(state, v) ==
    IF ChangedSlots(state, v) = {} THEN state
    ELSE [state EXCEPT ![FirstChanged(state, v)] = v[FirstChanged(state, v)]]

----------------------------------------------------------------------------
\* DeviceManager::process_input (src/device/manager.rs): one HID report,
\* (event_type, state), to a DeviceInput.  Codes are written in decimal.

\* pub const BUTTON_COUNT: u8 = 15 (10 main buttons, 4 strip buttons, 1 spare)
BUTTON_COUNT == 15
\* pub const ENCODER_COUNT: u8 = 4
ENCODER_COUNT == 4

Bytes        == 0..255
ButtonSlots  == 0..(BUTTON_COUNT - 1)
EncoderSlots == 0..(ENCODER_COUNT - 1)

\* The variants of mirajazz::types::DeviceInput
NoData                == [kind |-> "NoData"]
ButtonStateChange(v)  == [kind |-> "ButtonStateChange", v |-> v]
EncoderStateChange(v) == [kind |-> "EncoderStateChange", v |-> v]
EncoderTwist(v)       == [kind |-> "EncoderTwist", v |-> v]
\* Err(MirajazzError), which process_input never returns
InputError            == [kind |-> "Err"]

\* vec![dflt; n] with slot idx set to val; "if idx < v.len()" leaves the vector
\* as it is when idx is not one of its slots.
OneSlot(slots, idx, val, dflt) == [i \in slots |-> IF i = idx THEN val ELSE dflt]

MainButtonIndexRaw(event_type) == event_type
\* let button_idx = (event_type - 1) as usize
MainButtonIndex(event_type) == event_type - 1

\* let button_idx = (event_type - 0x40 + 10) as usize
StripButtonIndex(event_type) == event_type - 64 + 10

\* the lookup table of the encoder press codes 0x37, 0x35, 0x33, 0x36
EncoderPressIndex(event_type) ==
    CASE event_type = 55 -> 0
      [] event_type = 53 -> 1
      [] event_type = 51 -> 2
      [] event_type = 54 -> 3
      [] OTHER -> 0

ParityDirectionFlipped(event_type) == IF event_type % 2 = 1 THEN -1 ELSE 1
\* let dir = if event_type & 1 == 1 { 1 } else { -1 }
ParityDirection(event_type) == IF event_type % 2 = 1 THEN 1 ELSE -1

UnknownCodeRejected(event_type, state) == InputError
\* the arms "0x00 => Ok(NoData)" and "_ => Ok(NoData)"
UnknownCode(event_type, state) == NoData

process_input(event_type, state) ==
    IF event_type \in 1..10
    THEN ButtonStateChange(
             OneSlot(ButtonSlots, MainButtonIndex(event_type), state # 0, FALSE))
    ELSE IF event_type \in {51, 53, 54, 55}
    THEN EncoderStateChange(
             OneSlot(EncoderSlots, EncoderPressIndex(event_type), state # 0, FALSE))
    ELSE IF event_type \in {112, 113}                       \* 0x70 | 0x71
    THEN EncoderTwist(OneSlot(EncoderSlots, 3, ParityDirection(event_type), 0))
    ELSE IF event_type \in {160, 161}                       \* 0xa0 | 0xa1
    THEN EncoderTwist(OneSlot(EncoderSlots, 0, ParityDirection(event_type), 0))
    ELSE IF event_type \in {144, 145}                       \* 0x90 | 0x91
    THEN EncoderTwist(
             OneSlot(EncoderSlots, 2, IF event_type = 145 THEN 1 ELSE -1, 0))
    ELSE IF event_type \in 64..67                           \* 0x40..=0x43
    THEN ButtonStateChange(
             OneSlot(ButtonSlots, StripButtonIndex(event_type), TRUE, FALSE))
    ELSE IF event_type = 80                                 \* 0x50
    THEN EncoderTwist(OneSlot(EncoderSlots, 1, -1, 0))
    ELSE IF event_type = 81                                 \* 0x51
    THEN EncoderTwist(OneSlot(EncoderSlots, 1, 1, 0))
    ELSE UnknownCode(event_type, state)

----------------------------------------------------------------------------
\* DeviceManager::poll_event (src/device/manager.rs), every DeviceInput

\* InputState::new(button_count, encoder_count)
InputStateButtons  == [i \in ButtonSlots |-> FALSE]
InputStateEncoders == [i \in EncoderSlots |-> FALSE]

\* Option<InputEvent> for an encoder press or release
EncoderEvent(state, v) ==
    IF ChangedSlots(state, v) = {} THEN NoEvent
    ELSE LET i == FirstChanged(state, v) IN
         [kind |-> IF v[i] THEN "encoder_press" ELSE "encoder_release",
          encoder |-> i]

EncoderStateKeepsPress(state, v) == EdgeState(state, v)
EncoderStateStoresSample(state, v) == v
\* EncoderStateChange: a press edge stores false ("immediately reset to allow
\* next press"), a release edge stores the sample.
EncoderState(state, v) ==
    IF ChangedSlots(state, v) = {} THEN state
    ELSE LET i == FirstChanged(state, v) IN
         [state EXCEPT ![i] = IF v[i] THEN FALSE ELSE v[i]]

\* EncoderTwist: the first non-zero direction.
TwistEvent(v) ==
    LET turned == {i \in DOMAIN v : v[i] # 0} IN
    IF turned = {} THEN NoEvent
    ELSE LET i == CHOOSE x \in turned : \A y \in turned : x <= y IN
         [kind |-> "encoder_rotate", encoder |-> i, direction |-> v[i]]

\* poll_event on a DeviceInput: the event returned and the InputState left.
PollEvent(buttons, encoders, input) ==
    CASE input.kind = "ButtonStateChange" ->
            [event |-> EdgeEvent(buttons, input.v),
             buttons |-> EdgeState(buttons, input.v),
             encoders |-> encoders]
      [] input.kind = "EncoderStateChange" ->
            [event |-> EncoderEvent(encoders, input.v),
             buttons |-> buttons,
             encoders |-> EncoderState(encoders, input.v)]
      [] input.kind = "EncoderTwist" ->
            [event |-> TwistEvent(input.v), buttons |-> buttons, encoders |-> encoders]
      [] OTHER ->
            [event |-> NoEvent, buttons |-> buttons, encoders |-> encoders]

\* No report read yet, no report decoded yet.
NoSample   == <<>>
NotDecoded == [kind |-> "pending"]

\* The reports of the edge tracker's specification: the first, the second and
\* the last main button, two strip buttons, three encoder presses, a rotation
\* pair, the null report and an unknown code; as state byte a release, a
\* press, and a press with another non-zero state.
SampleCodes  == {1, 2, 10} \cup {64, 67} \cup {51, 53, 55} \cup {80, 81} \cup {0, 255}
SampleStates == {0, 1, 255}

\* The edge tracker outside its own specification.
InputInit ==
    /\ edge_buttons = InputStateButtons
    /\ edge_encoders = InputStateEncoders
    /\ sample = NoSample
    /\ decoded = NotDecoded
    /\ polled = NoEvent
    /\ polls = 0

----------------------------------------------------------------------------
\* AppState (src/state/manager.rs)

\* pub const DEFAULT_MODELS: &[&str] = &["opus", "sonnet", "haiku"]
DEFAULT_MODELS == <<"opus", "sonnet", "haiku">>
\* A model name that a status file may carry and no configuration lists.
OtherModel == "gpt"
ModelNames == {DEFAULT_MODELS[i] : i \in 1..Len(DEFAULT_MODELS)}

\* config.models.available: any list of at most MaxModels of the names.
ModelLists == UNION {[1..n -> ModelNames] : n \in 0..MaxModels}

None == "None"

\* available_models.iter().position(|m| m == model), 0-based; NoPosition for
\* the None of an absent name.
NoPosition == -1
Position(models, model) ==
    LET at == {i \in 1..Len(models) : models[i] = model} IN
    IF at = {} THEN NoPosition
    ELSE (CHOOSE i \in at : \A j \in at : i <= j) - 1

\* AppState::with_config
with_config(available_models, default_model) ==
    LET pos == Position(available_models, default_model)
        model_index == IF pos = NoPosition THEN 0 ELSE pos
    IN [task_name |-> "READY",
        tool_detail |-> None,
        model |-> IF model_index < Len(available_models)
                  THEN available_models[model_index + 1] ELSE "opus",
        model_index |-> model_index,
        model_selecting |-> FALSE,
        waiting_for_input |-> FALSE,
        input_type |-> None,
        available_models |-> available_models]

\* (self.model_index + 1) % len
NextIndex(i, len) == (i + 1) % len

PrevIndexSaturating(i, len) == IF i = 0 THEN 0 ELSE i - 1
\* self.model_index.checked_sub(1).unwrap_or(len - 1)
PrevIndex(i, len) == IF i = 0 THEN len - 1 ELSE i - 1

\* AppState::cycle_model
cycle_model(st, direction) ==
    IF st.available_models = <<>> THEN st
    ELSE LET len == Len(st.available_models)
             index == IF direction > 0 THEN NextIndex(st.model_index, len)
                      ELSE PrevIndex(st.model_index, len)
         IN [st EXCEPT !.model_selecting = TRUE,
                       !.model_index = index,
                       !.model = st.available_models[index + 1]]

\* AppState::confirm_model
confirm_model(st) == [st EXCEPT !.model_selecting = FALSE]

SetModelNameOnly(st, model) ==
    IF Position(st.available_models, model) = NoPosition THEN st
    ELSE [st EXCEPT !.model = model]
\* AppState::set_model
set_model(st, model) ==
    LET index == Position(st.available_models, model) IN
    IF index = NoPosition THEN st
    ELSE [st EXCEPT !.model_index = index, !.model = model]

\* The conversion of ClaudeStatus::input_type to Option<InputType>
InputTypeOf(s) ==
    IF s \in {"permission", "yesno", "yes_no", "continue"} THEN s ELSE None

\* "state.set_model(&model); changed = true": the flag after the model branch
\* was taken.
ChangedBySetModel(st, model) == TRUE

\* App::update_from_claude_status with a status file: the state left and the
\* value returned.
UpdateFromStatus(st, status) ==
    LET s1 == IF status.task # "" /\ st.task_name # status.task
              THEN [st EXCEPT !.task_name = status.task] ELSE st
        c1 == status.task # "" /\ st.task_name # status.task
        s2 == IF s1.tool_detail # status.tool_detail
              THEN [s1 EXCEPT !.tool_detail = status.tool_detail] ELSE s1
        c2 == s1.tool_detail # status.tool_detail
        s3 == IF s2.waiting_for_input # status.waiting_for_input
              THEN [s2 EXCEPT !.waiting_for_input = status.waiting_for_input,
                              !.input_type = InputTypeOf(status.input_type)]
              ELSE s2
        c3 == s2.waiting_for_input # status.waiting_for_input
        m  == status.model # None /\ ~s3.model_selecting /\ s3.model # status.model
        s4 == IF m THEN set_model(s3, status.model) ELSE s3
        c4 == m /\ ChangedBySetModel(s3, status.model)
    IN [state |-> s4, ret |-> c1 \/ c2 \/ c3 \/ c4,
        set |-> IF m THEN status.model ELSE None]

\* App::update_from_claude_status without a status file: the model of
\* ~/.claude/settings.json, if there is one.
UpdateFromSettings(st, model) ==
    LET m == model # None /\ ~st.model_selecting /\ st.model # model IN
    [state |-> IF m THEN set_model(st, model) ELSE st,
     ret |-> m /\ ChangedBySetModel(st, model),
     set |-> IF m THEN model ELSE None]

\* The ClaudeStatus values hooks::read_status may return.
Statuses ==
    [task : {"", "Bash"},
     tool_detail : {None, "ls"},
     waiting_for_input : BOOLEAN,
     input_type : {None, "permission", "question"},
     model : {None, OtherModel} \cup ModelNames]

\* An operation on AppState: its name, the direction of a cycle_model, the
\* value returned, whether a field changed.
StateOp(op, dir, ret, modified) ==
    [op |-> op, dir |-> dir, ret |-> ret, modified |-> modified]
NoStateOp == StateOp("none", 0, FALSE, FALSE)

\* AppState outside its own specification.
AppInit ==
    /\ app_state = with_config(DEFAULT_MODELS, "opus")
    /\ state_op = NoStateOp
    /\ set_model_arg = None

\* handle_encoder_press: Duration::from_millis(300)
ENCODER_DEBOUNCE == 300

\* The encoder event of a step: "press" or "rotate", the encoder, whether the
\* press was the encoder's first since InputHandler::new, whether its action
\* was performed.
EncOp(op, encoder, first, performed) ==
    [op |-> op, encoder |-> encoder, first |-> first, performed |-> performed]
NoEncOp == EncOp("none", 0, FALSE, FALSE)

\* InputHandler::new: last_encoder_press is empty.
KnobInit ==
    /\ last_encoder_press = <<>>
    /\ enc_op = NoEncOp
    /\ since_action = [e \in EncoderSlots |-> ENCODER_DEBOUNCE]

\* The cache mutexes outside their own specification.
LockInit ==
    /\ animator_mutex = "free"
    /\ static_mutex = "free"
    /\ main_at = "idle"
    /\ main_button = 0
    /\ static_cache = {}
    /\ task_result = [url |-> NoUrl, gif |-> [ok |-> FALSE, frames |-> <<>>]]

----------------------------------------------------------------------------
\* Time

\* d ms pass: every "elapsed since" timer grows and saturates.
Saturate(t, d, cap) == Min(t + d, cap)
PressTimesAfter(times, d) ==
    [b \in DOMAIN times |-> Saturate(times[b], d \div 1000, LONG_PRESS_DURATION)]

\* The observation of a loop step: the event it handled, the release it
\* classified, the actions it executed, the write it issued.
\* e: where the step got a disconnected error from the link ("none" if nowhere).
ObserveError(h, u, a, w, e) ==
    /\ handled' = h
    /\ lastUp' = u
    /\ acted' = a
    /\ wrote' = w
    /\ link_error' = e

Observe(h, u, a, w) == ObserveError(h, u, a, w, "none")

WriteByGated(src, d) ==
    IF Saturate(last_device_write, d, device_cooldown) >= device_cooldown
    THEN [src |-> src,
          gapOk |-> Saturate(sinceWrite, d, device_cooldown) >= device_cooldown,
          recOk |-> TRUE]
    ELSE NoWrite
\* A device write issued by source src after d ms inside the step.
WriteBy(src, d) ==
    [src |-> src,
     gapOk |-> Saturate(sinceWrite, d, device_cooldown) >= device_cooldown,
     recOk |-> Saturate(last_device_write, d, device_cooldown) >= device_cooldown]

----------------------------------------------------------------------------
\* App::run_main_loop (src/lib.rs), one action per step of an iteration

\* Only the main loop and the press classifier are part of this specification.
GifIdle  == UNCHANGED <<gifVars, inputVars, appVars, lockVars, knobVars>>
NoPressChange == UNCHANGED pressVars

\* Time passes inside an await (the HID read timeout, a sleep, a slow query).
Advance(d) ==
    /\ last_device_write' = Saturate(last_device_write, d, device_cooldown)
    /\ last_gif_tick' = Saturate(last_gif_tick, d, gif_tick_interval)
    /\ sinceWrite' = Saturate(sinceWrite, d, device_cooldown)
    /\ button_press_times' = PressTimesAfter(button_press_times, d)
    /\ UNCHANGED <<pc, event, device, connected, screen_locked, focused_app,
                   pending_app_check, app_tasks, input_state, held, long_press_fired>>
    /\ UNCHANGED <<handled, lastUp, acted, wrote, link_error>>
    /\ NoPressChange /\ GifIdle

\* "while let Ok(cmd) = self.command_rx.try_recv()": one RedrawButtons command.
DrainCommand ==
    /\ pc = "commands"
    /\ last_device_write' = 0
    /\ last_gif_tick' = Saturate(last_gif_tick, redraw_delay, gif_tick_interval)
    /\ button_press_times' = PressTimesAfter(button_press_times, redraw_delay)
    /\ IF device
       THEN /\ Observe(NoEvent, NoUp, {}, WriteBy("redraw", redraw_delay))
            /\ sinceWrite' = 0
       ELSE /\ Observe(NoEvent, NoUp, {}, NoWrite)
            /\ sinceWrite' = Saturate(sinceWrite, redraw_delay, device_cooldown)
    /\ UNCHANGED <<pc, event, device, connected, screen_locked, focused_app,
                   pending_app_check, app_tasks, input_state, held, long_press_fired>>
    /\ NoPressChange /\ GifIdle

\* try_recv() returns Err: the command queue is empty.
CommandsDrained ==
    /\ pc = "commands"
    /\ pc' = "poll"
    /\ Observe(NoEvent, NoUp, {}, NoWrite)
    /\ UNCHANGED <<event, device, connected, screen_locked, focused_app,
                   pending_app_check, app_tasks, last_device_write, last_gif_tick,
                   input_state, held, button_press_times, long_press_fired,
                   sinceWrite>>
    /\ NoPressChange /\ GifIdle

\* poll_event: the read times out, or the report is NoData.
PollNoData ==
    /\ pc = "poll" /\ device
    /\ pc' = "dispatch"
    /\ event' = NoEvent
    /\ Observe(NoEvent, NoUp, {}, NoWrite)
    /\ UNCHANGED <<device, connected, screen_locked, focused_app,
                   pending_app_check, app_tasks, last_device_write, last_gif_tick,
                   input_state, held, button_press_times, long_press_fired,
                   sinceWrite>>
    /\ NoPressChange /\ GifIdle

\* poll_event: the hardware reports that button b changed to `pressed`.
PollSample(b, pressed) ==
    /\ pc = "poll" /\ device
    /\ pressed = (b \notin held)
    /\ held' = IF pressed THEN held \cup {b} ELSE held \ {b}
    /\ pc' = "dispatch"
    /\ event' = EdgeEvent(input_state, ButtonVector(b, pressed))
    /\ input_state' = EdgeState(input_state, ButtonVector(b, pressed))
    /\ Observe(NoEvent, NoUp, {}, NoWrite)
    /\ UNCHANGED <<device, connected, screen_locked, focused_app,
                   pending_app_check, app_tasks, last_device_write, last_gif_tick,
                   button_press_times, long_press_fired, sinceWrite>>
    /\ NoPressChange /\ GifIdle

ConnectedFlagKept(c) == c
\* "self.state.write().await.connected = false" next to "self.device = None"
ConnectedAfterDisconnect(c) == FALSE

\* poll_event returns the "Device disconnected" error.
PollDisconnected ==
    /\ pc = "poll" /\ device
    /\ pc' = "dispatch"
    /\ event' = NoEvent
    /\ device' = FALSE
    /\ connected' = ConnectedAfterDisconnect(connected)
    /\ ObserveError(NoEvent, NoUp, {}, NoWrite, "poll_event")
    /\ UNCHANGED <<screen_locked, focused_app, pending_app_check, app_tasks,
                   last_device_write, last_gif_tick, input_state, held,
                   button_press_times, long_press_fired, sinceWrite>>
    /\ NoPressChange /\ GifIdle

\* self.device is None: no poll.
PollNoDevice ==
    /\ pc = "poll" /\ ~device
    /\ pc' = "dispatch"
    /\ event' = NoEvent
    /\ Observe(NoEvent, NoUp, {}, NoWrite)
    /\ UNCHANGED <<device, connected, screen_locked, focused_app,
                   pending_app_check, app_tasks, last_device_write, last_gif_tick,
                   input_state, held, button_press_times, long_press_fired,
                   sinceWrite>>
    /\ NoPressChange /\ GifIdle

\* A button changes while no device is connected: no report reaches the program.
UnseenChange(b) ==
    /\ ~device
    /\ held' = IF b \in held THEN held \ {b} ELSE held \cup {b}
    /\ UNCHANGED <<pc, event, device, connected, screen_locked, focused_app,
                   pending_app_check, app_tasks, last_device_write, last_gif_tick,
                   input_state, button_press_times, long_press_fired>>
    /\ UNCHANGED stepVars
    /\ NoPressChange /\ GifIdle

\* "if !is_locked": handle_event(ButtonDown(b)), update_display.
HandleButtonDown ==
    /\ pc = "dispatch" /\ event.kind = "down" /\ ~screen_locked
    /\ pc' = "long_press"
    /\ event' = NoEvent
    /\ button_press_times' =
         IF device_to_logical_button(event.button) = {} THEN button_press_times
         ELSE InsertPress(button_press_times, event.button)
    /\ Observe(event, NoUp, {}, WriteBy("event", 0))
    /\ last_device_write' = 0
    /\ sinceWrite' = 0
    /\ downHandled' = [downHandled EXCEPT ![event.button] =
                         IF event.button \in find_mic_buttons(focused_app)
                         THEN "mic" ELSE "other"]
    /\ pollFires' = [pollFires EXCEPT ![event.button] = 0]
    /\ polledPast' = [polledPast EXCEPT ![event.button] = FALSE]
    /\ UNCHANGED <<device, connected, screen_locked, focused_app,
                   pending_app_check, app_tasks, last_gif_tick, input_state, held,
                   long_press_fired, firedSinceUp>>
    /\ GifIdle

\* The release that handle_button_up classifies, and the action it executes.
ButtonUpResult(b) ==
    LET d    == press_duration(button_press_times, b)
        af   == already_fired(long_press_fired, b)
        long == is_long_press(d)
    IN  [kind |-> "up", button |-> b,
         hadRecord |-> b \in DOMAIN button_press_times,
         duration |-> d,
         already_fired |-> af,
         is_long_press |-> long,
         op |-> IF af THEN "none" ELSE ExecuteAction(focused_app, b, long),
         mic |-> b \in find_mic_buttons(focused_app),
         down |-> downHandled[b],
         pollFires |-> pollFires[b],
         firedSinceUp |-> firedSinceUp[b]]

\* "if !is_locked": handle_event(ButtonUp(b)) = handle_button_up, update_display.
HandleButtonUp ==
    /\ pc = "dispatch" /\ event.kind = "up" /\ ~screen_locked
    /\ pc' = "long_press"
    /\ event' = NoEvent
    /\ LET b == event.button
           r == ButtonUpResult(b)
       IN  /\ button_press_times' = RemovePress(button_press_times, b)
           /\ long_press_fired' = RemoveFired(long_press_fired, b)
           /\ Observe(event, r,
                      IF r.op = "none" THEN {}
                      ELSE {[op |-> r.op, button |-> b, src |-> "release"]},
                      WriteBy("event", 0))
           /\ downHandled' = [downHandled EXCEPT ![b] = "no"]
           /\ pollFires' = [pollFires EXCEPT ![b] = 0]
           /\ firedSinceUp' = [firedSinceUp EXCEPT ![b] = FALSE]
           /\ polledPast' = [polledPast EXCEPT ![b] = FALSE]
    /\ last_device_write' = 0
    /\ sinceWrite' = 0
    /\ UNCHANGED <<device, connected, screen_locked, focused_app,
                   pending_app_check, app_tasks, last_gif_tick, input_state, held>>
    /\ GifIdle

\* "Silently ignore input when locked": continue, the rest of the iteration
\* is skipped.
DropEventLocked ==
    /\ pc = "dispatch" /\ event.kind # "none" /\ screen_locked
    /\ pc' = "commands"
    /\ event' = NoEvent
    /\ Observe(NoEvent, NoUp, {}, NoWrite)
    /\ UNCHANGED <<device, connected, screen_locked, focused_app,
                   pending_app_check, app_tasks, last_device_write, last_gif_tick,
                   input_state, held, button_press_times, long_press_fired,
                   sinceWrite>>
    /\ NoPressChange /\ GifIdle

\* No event and a device: nothing to dispatch.
DispatchNone ==
    /\ pc = "dispatch" /\ event.kind = "none" /\ device
    /\ pc' = "long_press"
    /\ Observe(NoEvent, NoUp, {}, NoWrite)
    /\ UNCHANGED <<event, device, connected, screen_locked, focused_app,
                   pending_app_check, app_tasks, last_device_write, last_gif_tick,
                   input_state, held, button_press_times, long_press_fired,
                   sinceWrite>>
    /\ NoPressChange /\ GifIdle

InitialRenderSkipped(d) == NoWrite
\* render_initial_display on a connected device, d ms into the step: reset,
\* startup animation, the ten buttons, the strip.
InitialRender(d) == WriteBy("reconnect", d)

\* "else if self.device.is_none()": sleep 5 s, DeviceManager::connect();
\* on success a new edge tracker and render_initial_display.
Reconnect(ok) ==
    /\ pc = "dispatch" /\ event.kind = "none" /\ ~device
    /\ pc' = "long_press"
    /\ button_press_times' =
         PressTimesAfter(button_press_times, reconnect_delay * 1000)
    /\ last_gif_tick' = gif_tick_interval
    /\ IF ok
       THEN /\ device' = TRUE
            /\ connected' = TRUE
            /\ input_state' = [i \in Buttons |-> FALSE]
            /\ last_device_write' = 0
            /\ sinceWrite' = 0
            /\ Observe(NoEvent, NoUp, {}, InitialRender(reconnect_delay * 1000))
       ELSE /\ last_device_write' = device_cooldown
            /\ sinceWrite' = device_cooldown
            /\ Observe(NoEvent, NoUp, {}, NoWrite)
            /\ UNCHANGED <<device, connected, input_state>>
    /\ UNCHANGED <<event, screen_locked, focused_app, pending_app_check, app_tasks, held,
                   long_press_fired>>
    /\ NoPressChange /\ GifIdle

\* self.input.check_long_press(); on Ok(true) update_display.
CheckLongPress ==
    /\ pc = "long_press"
    /\ pc' = "status"
    /\ LET due == LongPressDue(button_press_times, long_press_fired, focused_app)
           past == {b \in find_mic_buttons(focused_app) :
                      /\ b \in DOMAIN button_press_times
                      /\ button_press_times[b] >= LONG_PRESS_DURATION}
       IN  /\ long_press_fired' = long_press_fired \cup due
           /\ pollFires' = [b \in Buttons |->
                              IF b \in due THEN pollFires[b] + 1 ELSE pollFires[b]]
           /\ firedSinceUp' = [b \in Buttons |-> firedSinceUp[b] \/ b \in due]
           /\ polledPast' = [b \in Buttons |-> polledPast[b] \/ b \in past]
           /\ Observe(NoEvent, NoUp,
                      {[op |-> "clear_current_line", button |-> b, src |-> "poll"] :
                          b \in due},
                      IF due # {} /\ device THEN WriteBy("long_press", 0) ELSE NoWrite)
           /\ last_device_write' = IF due # {} THEN 0 ELSE last_device_write
           /\ sinceWrite' = IF due # {} /\ device THEN 0 ELSE sinceWrite
    /\ UNCHANGED <<event, device, connected, screen_locked, focused_app,
                   pending_app_check, app_tasks, last_gif_tick, input_state, held,
                   button_press_times, downHandled>>
    /\ GifIdle

\* The status poll: interval not elapsed, or update_from_claude_status
\* returns Ok(false) or Err.
StatusUnchanged ==
    /\ pc = "status"
    /\ pc' = "app_check"
    /\ Observe(NoEvent, NoUp, {}, NoWrite)
    /\ UNCHANGED <<event, device, connected, screen_locked, focused_app,
                   pending_app_check, app_tasks, last_device_write, last_gif_tick,
                   input_state, held, button_press_times, long_press_fired,
                   sinceWrite>>
    /\ NoPressChange /\ GifIdle

\* update_from_claude_status returns Ok(true): update_display.
StatusChanged ==
    /\ pc = "status"
    /\ pc' = "app_check"
    /\ Observe(NoEvent, NoUp, {}, IF device THEN WriteBy("status", 0) ELSE NoWrite)
    /\ last_device_write' = 0
    /\ sinceWrite' = IF device THEN 0 ELSE sinceWrite
    /\ UNCHANGED <<event, device, connected, screen_locked, focused_app,
                   pending_app_check, app_tasks, last_gif_tick, input_state, held,
                   button_press_times, long_press_fired>>
    /\ NoPressChange /\ GifIdle

SpawnWhilePending(pending) == TRUE
\* "if pending_app_check.is_none() && last_app_check.elapsed() >= app_check_interval":
\* whether a task may be spawned, given whether a handle is held (the interval
\* may or may not have elapsed).
MaySpawn(pending) == ~pending

\* The number of tasks after the spawn decision.
Spawned(n, spawn) == IF spawn THEN n + 1 ELSE n

\* The pending get_focused_app task finished with another application: the
\* handle is awaited, redraw_all_buttons; then a new task may be spawned.
AppChanged(app, spawn) ==
    /\ pc = "app_check" /\ pending_app_check
    /\ app # focused_app
    /\ spawn => MaySpawn(FALSE)
    /\ pc' = "lock_check"
    /\ focused_app' = app
    /\ pending_app_check' = spawn
    /\ app_tasks' = Spawned(app_tasks - 1, spawn)
    /\ Observe(NoEvent, NoUp, {}, IF device THEN WriteBy("app", 0) ELSE NoWrite)
    /\ last_device_write' = 0
    /\ sinceWrite' = IF device THEN 0 ELSE sinceWrite
    /\ UNCHANGED <<event, device, connected, screen_locked, last_gif_tick,
                   input_state, held, button_press_times, long_press_fired>>
    /\ NoPressChange /\ GifIdle

\* No task was pending, or it finished (and is awaited) with None or the same
\* application; then a new task may be spawned.
AppUnchanged(spawn) ==
    /\ pc = "app_check"
    /\ spawn => MaySpawn(FALSE)
    /\ pc' = "lock_check"
    /\ pending_app_check' = spawn
    /\ app_tasks' = Spawned(IF pending_app_check THEN app_tasks - 1 ELSE app_tasks,
                            spawn)
    /\ Observe(NoEvent, NoUp, {}, NoWrite)
    /\ UNCHANGED <<event, device, connected, screen_locked, focused_app,
                   last_device_write, last_gif_tick, input_state, held,
                   button_press_times, long_press_fired, sinceWrite>>
    /\ NoPressChange /\ GifIdle

\* handle.is_finished() is false: the handle is put back, so no task may be
\* spawned (a spawn would replace the handle and leave its task running).
AppStillPending(spawn) ==
    /\ pc = "app_check" /\ pending_app_check
    /\ spawn => MaySpawn(TRUE)
    /\ pc' = "lock_check"
    /\ pending_app_check' = TRUE
    /\ app_tasks' = Spawned(app_tasks, spawn)
    /\ Observe(NoEvent, NoUp, {}, NoWrite)
    /\ UNCHANGED <<event, device, connected, screen_locked, focused_app,
                   last_device_write, last_gif_tick, input_state, held,
                   button_press_times, long_press_fired, sinceWrite>>
    /\ NoPressChange /\ GifIdle

\* The lock check: interval not elapsed, or is_screen_locked() = was_locked.
LockUnchanged ==
    /\ pc = "lock_check"
    /\ pc' = "gif"
    /\ Observe(NoEvent, NoUp, {}, NoWrite)
    /\ UNCHANGED <<event, device, connected, screen_locked, focused_app,
                   pending_app_check, app_tasks, last_device_write, last_gif_tick,
                   input_state, held, button_press_times, long_press_fired,
                   sinceWrite>>
    /\ NoPressChange /\ GifIdle

\* is_screen_locked() differs from the flag: the flag is set,
\* redraw_all_buttons and update_display.
LockChanged ==
    /\ pc = "lock_check"
    /\ pc' = "gif"
    /\ screen_locked' = ~screen_locked
    /\ Observe(NoEvent, NoUp, {}, IF device THEN WriteBy("lock", 0) ELSE NoWrite)
    /\ last_device_write' = 0
    /\ sinceWrite' = IF device THEN 0 ELSE sinceWrite
    /\ UNCHANGED <<event, device, connected, focused_app, pending_app_check, app_tasks,
                   last_gif_tick, input_state, held, button_press_times,
                   long_press_fired>>
    /\ NoPressChange /\ GifIdle

GifGateTickOnly(gifElapsed, writeElapsed) == gifElapsed >= gif_tick_interval
\* "if last_gif_tick.elapsed() >= gif_tick_interval
\*     && last_device_write.elapsed() >= device_cooldown"
GifGate(gifElapsed, writeElapsed) ==
    /\ gifElapsed >= gif_tick_interval
    /\ writeElapsed >= device_cooldown

\* The gate is closed: nothing happens in this iteration.
GifSkipped ==
    /\ pc = "gif"
    /\ ~GifGate(last_gif_tick, last_device_write)
    /\ pc' = "sleep"
    /\ Observe(NoEvent, NoUp, {}, NoWrite)
    /\ UNCHANGED <<event, device, connected, screen_locked, focused_app,
                   pending_app_check, app_tasks, last_device_write, last_gif_tick,
                   input_state, held, button_press_times, long_press_fired,
                   sinceWrite>>
    /\ NoPressChange /\ GifIdle

\* The gate is open: update_gif_animations.  frames: tick() returned frames;
\* failed: a device write (set_button_image, flush) returned Err because the
\* link is disconnected.
GifUpdate(frames, failed) ==
    /\ pc = "gif"
    /\ GifGate(last_gif_tick, last_device_write)
    /\ failed => frames
    /\ pc' = "sleep"
    /\ last_gif_tick' = 0
    /\ IF device /\ frames
       THEN /\ ObserveError(NoEvent, NoUp, {}, WriteBy("gif", 0),
                            IF failed THEN "write" ELSE "none")
            /\ sinceWrite' = 0
            /\ last_device_write' = IF failed THEN last_device_write ELSE 0
       ELSE /\ Observe(NoEvent, NoUp, {}, NoWrite)
            /\ sinceWrite' = sinceWrite
            /\ last_device_write' = 0
    /\ UNCHANGED <<event, device, connected, screen_locked, focused_app,
                   pending_app_check, app_tasks, input_state, held, button_press_times,
                   long_press_fired>>
    /\ NoPressChange /\ GifIdle

\* tokio::time::sleep(1 ms) at the end of the iteration.
Sleep ==
    /\ pc = "sleep"
    /\ pc' = "commands"
    /\ Observe(NoEvent, NoUp, {}, NoWrite)
    /\ UNCHANGED <<event, device, connected, screen_locked, focused_app,
                   pending_app_check, app_tasks, last_device_write, last_gif_tick,
                   input_state, held, button_press_times, long_press_fired,
                   sinceWrite>>
    /\ NoPressChange /\ GifIdle

----------------------------------------------------------------------------
\* The state after App::new and render_initial_display, at the loop's entry.

GifInit ==
    /\ gif_cache = <<>>
    /\ animations = <<>>
    /\ loading = {}
    /\ tasks = [u \in Urls |-> 0]
    /\ gif_cfg = [b \in GifButtons |-> NoUrl]
    /\ panicked = FALSE
    /\ gif_op = NoGifOp

Init ==
    /\ pc = "commands"
    /\ event = NoEvent
    /\ device \in BOOLEAN
    /\ connected = device
    /\ screen_locked = FALSE
    /\ focused_app = ""
    /\ pending_app_check = FALSE
    /\ app_tasks = 0
    /\ last_device_write = 0
    /\ last_gif_tick = 0
    /\ input_state = [i \in Buttons |-> FALSE]
    /\ held = {}
    /\ button_press_times = <<>>
    /\ long_press_fired = {}
    /\ handled = NoEvent
    /\ lastUp = NoUp
    /\ acted = {}
    /\ wrote = NoWrite
    /\ link_error = "none"
    /\ sinceWrite = IF device THEN 0 ELSE device_cooldown
    /\ downHandled = [b \in Buttons |-> "no"]
    /\ pollFires = [b \in Buttons |-> 0]
    /\ firedSinceUp = [b \in Buttons |-> FALSE]
    /\ polledPast = [b \in Buttons |-> FALSE]
    /\ GifInit
    /\ InputInit
    /\ AppInit
    /\ LockInit
    /\ KnobInit

Next ==
    \/ \E d \in {MsStep, SecStep} : Advance(d)
    \/ DrainCommand
    \/ CommandsDrained
    \/ PollNoData
    \/ \E b \in Buttons, pressed \in BOOLEAN : PollSample(b, pressed)
    \/ PollDisconnected
    \/ PollNoDevice
    \/ \E b \in Buttons : UnseenChange(b)
    \/ HandleButtonDown
    \/ HandleButtonUp
    \/ DropEventLocked
    \/ DispatchNone
    \/ \E ok \in BOOLEAN : Reconnect(ok)
    \/ CheckLongPress
    \/ StatusUnchanged
    \/ StatusChanged
    \/ \E app \in Apps, spawn \in BOOLEAN : AppChanged(app, spawn)
    \/ \E spawn \in BOOLEAN : AppUnchanged(spawn)
    \/ \E spawn \in BOOLEAN : AppStillPending(spawn)
    \/ LockUnchanged
    \/ LockChanged
    \/ GifSkipped
    \/ \E frames \in BOOLEAN, failed \in BOOLEAN : GifUpdate(frames, failed)
    \/ Sleep

Spec == Init /\ [][Next]_vars

\* The loop while no button is touched, with fairness: the loop is a tokio
\* task whose awaits all return, so the step that leaves the current
\* position is eventually taken (WF); DeviceManager::connect succeeds
\* infinitely often if it is attempted infinitely often (SF), which is the
\* hardware becoming available again.
LeavePosition ==
    \/ CommandsDrained
    \/ PollNoData
    \/ PollDisconnected
    \/ PollNoDevice
    \/ DispatchNone
    \/ \E ok \in BOOLEAN : Reconnect(ok)
    \/ CheckLongPress
    \/ StatusUnchanged
    \/ StatusChanged
    \/ \E app \in Apps, spawn \in BOOLEAN : AppChanged(app, spawn)
    \/ \E spawn \in BOOLEAN : AppUnchanged(spawn)
    \/ \E spawn \in BOOLEAN : AppStillPending(spawn)
    \/ LockUnchanged
    \/ LockChanged
    \/ GifSkipped
    \/ \E frames \in BOOLEAN, failed \in BOOLEAN : GifUpdate(frames, failed)
    \/ Sleep

NextLive ==
    \/ \E d \in {MsStep, SecStep} : Advance(d)
    \/ DrainCommand
    \/ LeavePosition

SpecLive ==
    /\ Init
    /\ [][NextLive]_vars
    /\ WF_vars(LeavePosition)
    /\ SF_vars(Reconnect(TRUE))

\* The loop with button input and the same fairness: every poll may find a
\* report, and the step that leaves the current position is eventually
\* taken.  Time passes in MsStep steps only, which leaves the long-press
\* threshold out of reach.
LeavePositionPolled ==
    \/ LeavePosition
    \/ \E b \in Buttons, pressed \in BOOLEAN : PollSample(b, pressed)
    \/ HandleButtonDown
    \/ HandleButtonUp
    \/ DropEventLocked

NextPolled ==
    \/ Advance(MsStep)
    \/ DrainCommand
    \/ \E b \in Buttons : UnseenChange(b)
    \/ LeavePositionPolled

SpecPolled ==
    /\ Init
    /\ [][NextPolled]_vars
    /\ WF_vars(LeavePositionPolled)
    /\ SF_vars(Reconnect(TRUE))

----------------------------------------------------------------------------
\* GifAnimator (src/display/gif.rs)

Max(a, b) == IF a > b THEN a ELSE b

\* Option<CachedGif>: None, or Some(frames) with the delay of each frame.
NoGif == [ok |-> FALSE, frames |-> <<>>]
SomeGif(delays) == [ok |-> TRUE, frames |-> delays]

\* fetch_and_decode_gif.  raw.fetched: the GET and GifDecoder::new succeed;
\* raw.delays: the declared delay of each frame that decodes; raw.still:
\* image::load_from_memory succeeds on the payload.
fetch_and_decode_gif(raw) ==
    IF ~raw.fetched THEN NoGif
    ELSE IF raw.delays # <<>>
         THEN SomeGif([i \in 1..Len(raw.delays) |-> Max(raw.delays[i], min_frame_delay)])
         ELSE IF raw.still THEN SomeGif(<<still_delay>>) ELSE NoGif

RawGifs ==
    [fetched : BOOLEAN,
     delays : UNION {[1..n -> RawDelays] : n \in 0..MaxFrames},
     still : BOOLEAN]

\* The longest delay a cached frame can have: cursors' timers saturate there.
CachedDelays == {Max(d, min_frame_delay) : d \in RawDelays} \cup {still_delay}
MaxDelay == CHOOSE d \in CachedDelays : \A e \in CachedDelays : e <= d

\* is_cached, is_loading
is_cached(url) == url \in DOMAIN gif_cache
is_loading(url) == url \in loading

\* has_animation
has_animation(anims, b) == b \in DOMAIN anims

\* set_button_gif: animations.insert(button_id, ButtonAnimation {..})
set_button_gif(anims, b, url) ==
    [x \in (DOMAIN anims) \cup {b} |->
        IF x = b
        THEN [gif_url |-> url, current_frame |-> 0, last_frame_time |-> 0,
              has_rendered |-> FALSE]
        ELSE anims[x]]

\* render_button for every button (render_button_with_config_and_id): a
\* button with a gif_url gets a cursor unless it has one; a locked screen
\* renders render_locked_button instead.
RenderAll(anims, locked) ==
    IF locked THEN anims
    ELSE [x \in (DOMAIN anims) \cup {b \in GifButtons : gif_cfg[b] # NoUrl} |->
            IF has_animation(anims, x) THEN anims[x]
            ELSE set_button_gif(anims, x, gif_cfg[x])[x]]

PendingIgnoresCache(anims, url) ==
    IF url \in loading THEN 0
    ELSE Cardinality({b \in DOMAIN anims : anims[b].gif_url = url})
\* get_pending_urls: one entry per cursor whose URL is neither cached nor
\* loading; the number of entries for each URL.
get_pending_urls(anims, url) ==
    IF is_cached(url) \/ is_loading(url) THEN 0
    ELSE Cardinality({b \in DOMAIN anims : anims[b].gif_url = url})

\* tick, one cursor: the entry it resolves to, if any.
Resolved(c) ==
    /\ c.gif_url \in DOMAIN gif_cache
    /\ gif_cache[c.gif_url].ok
    /\ gif_cache[c.gif_url].frames # <<>>

\* tick: cached.frames[anim.current_frame] is out of range.
TickPanics(c) ==
    /\ Resolved(c)
    /\ c.has_rendered
    /\ c.current_frame >= Len(gif_cache[c.gif_url].frames)

NextFrameNoWrap(cf, len) == cf + 1
\* tick: (anim.current_frame + 1) % cached.frames.len()
NextFrame(cf, len) == (cf + 1) % len

TickEmitsWhenResolved(c) == Resolved(c)
\* tick, one cursor: whether it pushes a TickResult (the first render of a
\* resolved entry, or the current frame's delay has elapsed).
TickEmits(c) ==
    /\ Resolved(c)
    /\ \/ ~c.has_rendered
       \/ c.last_frame_time >= gif_cache[c.gif_url].frames[c.current_frame + 1]

\* tick, one cursor that pushes a TickResult: the index of the frame pushed.
TickFrame(c) ==
    IF ~c.has_rendered THEN 0
    ELSE NextFrame(c.current_frame, Len(gif_cache[c.gif_url].frames))

\* tick, one cursor that does not panic.
TickCursor(c) ==
    IF ~Resolved(c) THEN c
    ELSE IF ~c.has_rendered
         THEN [c EXCEPT !.has_rendered = TRUE, !.last_frame_time = 0]
         ELSE LET frames == gif_cache[c.gif_url].frames IN
              IF c.last_frame_time >= frames[c.current_frame + 1]
              THEN [c EXCEPT !.current_frame = NextFrame(c.current_frame, Len(frames)),
                             !.last_frame_time = 0]
              ELSE c

LoopIdle == UNCHANGED <<loopVars, stepVars, pressVars, inputVars, appVars, lockVars,
                        knobVars>>

\* render_initial_display on the animator: every button is rendered, nothing
\* is cleared and no loading is started.
RenderInitialGif(locked) ==
    /\ ~panicked
    /\ animations' = RenderAll(animations, locked)
    /\ gif_op' = GifOp("render", NoUrl, <<>>)
    /\ UNCHANGED <<gif_cache, loading, tasks, gif_cfg, panicked>>

\* render_initial_display with a device.
RenderInitialDisplay(locked) ==
    /\ RenderInitialGif(locked)
    /\ LoopIdle

\* redraw_all_buttons, the cursors it leaves: clear_all, then render_button
\* for every button.
RedrawCursors(locked) == RenderAll(<<>>, locked)

\* redraw_all_buttons on the animator: clear_all, render every button,
\* start_gif_background_loading (mark_loading and one task per pending entry).
RedrawGif(locked) ==
    /\ ~panicked
    /\ LET anims == RedrawCursors(locked) IN
       /\ animations' = anims
       /\ loading' = loading \cup {u \in Urls : get_pending_urls(anims, u) > 0}
       /\ tasks' = [u \in Urls |-> tasks[u] + get_pending_urls(anims, u)]
    /\ gif_op' = GifOp("redraw", NoUrl, <<>>)
    /\ UNCHANGED <<gif_cache, gif_cfg, panicked>>

\* redraw_all_buttons with a device.
RedrawAllButtons(locked) ==
    /\ RedrawGif(locked)
    /\ LoopIdle

StoreKeepsLoading(url, raw) ==
    /\ ~panicked
    /\ tasks[url] > 0
    /\ tasks' = [tasks EXCEPT ![url] = tasks[url] - 1]
    /\ gif_cache' = [u \in (DOMAIN gif_cache) \cup {url} |->
                       IF u = url THEN fetch_and_decode_gif(raw) ELSE gif_cache[u]]
    /\ gif_op' = GifOp("store", url, <<>>)
    /\ UNCHANGED <<loading, animations, gif_cfg, panicked>>
    /\ LoopIdle
\* A background task ends: store_loaded_gif(url, fetch_and_decode_gif(url)).
StoreLoadedGif(url, raw) ==
    /\ ~panicked
    /\ tasks[url] > 0
    /\ tasks' = [tasks EXCEPT ![url] = tasks[url] - 1]
    /\ loading' = loading \ {url}
    /\ gif_cache' = [u \in (DOMAIN gif_cache) \cup {url} |->
                       IF u = url THEN fetch_and_decode_gif(raw) ELSE gif_cache[u]]
    /\ gif_op' = GifOp("store", url, <<>>)
    /\ UNCHANGED <<animations, gif_cfg, panicked>>
    /\ LoopIdle

\* GifAnimator::tick.
TickGif ==
    /\ ~panicked
    /\ IF \E b \in DOMAIN animations : TickPanics(animations[b])
       THEN /\ panicked' = TRUE
            /\ gif_op' = GifOp("tick", NoUrl, <<>>)
            /\ UNCHANGED animations
       ELSE /\ animations' = [b \in DOMAIN animations |-> TickCursor(animations[b])]
            /\ gif_op' =
                 GifOp("tick", NoUrl,
                       [b \in {x \in DOMAIN animations : TickEmits(animations[x])} |->
                           TickFrame(animations[b])])
            /\ UNCHANGED panicked
    /\ UNCHANGED <<gif_cache, loading, tasks, gif_cfg>>

\* update_gif_animations with a device: GifAnimator::tick.
Tick ==
    /\ TickGif
    /\ LoopIdle

\* GifStep ms pass.
GifAdvance ==
    /\ ~panicked
    /\ animations' = [b \in DOMAIN animations |->
                        [animations[b] EXCEPT !.last_frame_time =
                            Saturate(animations[b].last_frame_time, GifStep, MaxDelay)]]
    /\ gif_op' = GifOp("advance", NoUrl, <<>>)
    /\ UNCHANGED <<gif_cache, loading, tasks, gif_cfg, panicked>>
    /\ LoopIdle

\* The main loop at its entry with a device connected: the state the other
\* specifications leave it in.
LoopAtRest ==
    /\ pc = "commands"
    /\ event = NoEvent
    /\ device = TRUE
    /\ connected = TRUE
    /\ screen_locked = FALSE
    /\ focused_app = ""
    /\ pending_app_check = FALSE
    /\ app_tasks = 0
    /\ last_device_write = 0
    /\ last_gif_tick = 0
    /\ input_state = [i \in Buttons |-> FALSE]
    /\ held = {}
    /\ button_press_times = <<>>
    /\ long_press_fired = {}
    /\ handled = NoEvent
    /\ lastUp = NoUp
    /\ acted = {}
    /\ wrote = NoWrite
    /\ link_error = "none"
    /\ sinceWrite = 0
    /\ downHandled = [b \in Buttons |-> "no"]
    /\ pollFires = [b \in Buttons |-> 0]
    /\ firedSinceUp = [b \in Buttons |-> FALSE]
    /\ polledPast = [b \in Buttons |-> FALSE]

InitGif ==
    /\ LoopAtRest
    /\ gif_cache = <<>>
    /\ animations = <<>>
    /\ loading = {}
    /\ tasks = [u \in Urls |-> 0]
    /\ gif_cfg \in [GifButtons -> Urls \cup {NoUrl}]
    /\ panicked = FALSE
    /\ gif_op = NoGifOp
    /\ InputInit
    /\ AppInit
    /\ LockInit
    /\ KnobInit

NextGif ==
    \/ \E locked \in BOOLEAN : RenderInitialDisplay(locked)
    \/ \E locked \in BOOLEAN : RedrawAllButtons(locked)
    \/ \E url \in Urls, raw \in RawGifs : StoreLoadedGif(url, raw)
    \/ Tick
    \/ GifAdvance

SpecGif == InitGif /\ [][NextGif]_vars

\* The animator with fairness: the main loop keeps calling tick and time
\* keeps passing, and every spawned fetch task ends and stores its result.
\* Renders and redraws follow external events (reconnect, focus change, lock
\* change, web command) and are not forced.
SpecGifLive ==
    /\ InitGif
    /\ [][NextGif]_vars
    /\ WF_vars(Tick)
    /\ WF_vars(GifAdvance)
    /\ WF_vars(\E url \in Urls, raw \in RawGifs : StoreLoadedGif(url, raw))

----------------------------------------------------------------------------
\* The decoder over the full byte range (SpecDecode) and the edge tracker fed
\* with raw reports (SpecInput)

\* The loop, its press classifier and the animator are not part of these.
RestIdle == UNCHANGED <<loopVars, stepVars, pressVars, gifVars, appVars, lockVars,
                        knobVars>>

\* read_input hands the report to process_input.
Decode ==
    /\ decoded = NotDecoded
    /\ decoded' = process_input(sample[1], sample[2])
    /\ UNCHANGED <<edge_buttons, edge_encoders, sample, polled, polls>>
    /\ RestIdle

\* Any report the hardware may send: two bytes.
InitDecode ==
    /\ LoopAtRest
    /\ GifInit
    /\ edge_buttons = InputStateButtons
    /\ edge_encoders = InputStateEncoders
    /\ sample \in Bytes \X Bytes
    /\ decoded = NotDecoded
    /\ polled = NoEvent
    /\ polls = 0
    /\ AppInit
    /\ LockInit
    /\ KnobInit

SpecDecode == InitDecode /\ [][Decode]_vars

\* poll_event: read_input returns a report, process_input decodes it and the
\* edge detection runs on the result.
PollReport(event_type, state) ==
    /\ polled.kind # "disconnected"
    /\ LET input == process_input(event_type, state)
           r == PollEvent(edge_buttons, edge_encoders, input)
       IN /\ sample' = <<event_type, state>>
          /\ decoded' = input
          /\ polled' = r.event
          /\ edge_buttons' = r.buttons
          /\ edge_encoders' = r.encoders
    /\ polls' = Min(polls + 1, MaxPolls)
    /\ RestIdle

\* poll_event: the read times out (NoData), or fails with an error that is
\* not a disconnect: Ok(None).
PollNothing ==
    /\ polled.kind # "disconnected"
    /\ polled' = NoEvent
    /\ UNCHANGED <<edge_buttons, edge_encoders, sample, decoded, polls>>
    /\ RestIdle

\* poll_event: the read fails with "Disconnected"; the loop drops the manager.
PollDisconnect ==
    /\ polled.kind # "disconnected"
    /\ polled' = [kind |-> "disconnected"]
    /\ UNCHANGED <<edge_buttons, edge_encoders, sample, decoded, polls>>
    /\ RestIdle

\* DeviceManager::connect: a new manager with InputState::new.
Connect ==
    /\ polled.kind = "disconnected"
    /\ edge_buttons' = InputStateButtons
    /\ edge_encoders' = InputStateEncoders
    /\ sample' = NoSample
    /\ decoded' = NotDecoded
    /\ polled' = NoEvent
    /\ polls' = 0
    /\ RestIdle

InitInput ==
    /\ LoopAtRest
    /\ GifInit
    /\ InputInit
    /\ AppInit
    /\ LockInit
    /\ KnobInit

NextInput ==
    \/ \E event_type \in SampleCodes, state \in SampleStates :
           PollReport(event_type, state)
    \/ PollNothing
    \/ PollDisconnect
    \/ Connect

SpecInput == InitInput /\ [][NextInput]_vars

----------------------------------------------------------------------------
\* AppState under the model knob and the status poll (SpecState)

\* Nothing but AppState is part of this specification.
DeckIdle == UNCHANGED <<loopVars, stepVars, pressVars, gifVars, inputVars, lockVars,
                        knobVars>>

\* handle_encoder_rotate, encoder 1: InputHandler::cycle_model(direction)
CycleModel(direction) ==
    /\ app_state' = cycle_model(app_state, direction)
    /\ state_op' = StateOp("cycle", direction, FALSE, app_state' # app_state)
    /\ set_model_arg' = None
    /\ DeckIdle

\* handle_encoder_press, encoder 1: InputHandler::confirm_model
ConfirmModel ==
    /\ app_state' = IF app_state.model_selecting THEN confirm_model(app_state)
                    ELSE app_state
    /\ state_op' = StateOp("confirm", 0, app_state.model_selecting,
                           app_state' # app_state)
    /\ set_model_arg' = None
    /\ DeckIdle

\* The status poll of run_main_loop with a fresh status file:
\* update_from_claude_status; Ok(true) leads to update_display and a write.
StatusPoll(status) ==
    /\ LET r == UpdateFromStatus(app_state, status) IN
       /\ app_state' = r.state
       /\ state_op' = StateOp("status", 0, r.ret, r.state # app_state)
       /\ set_model_arg' = r.set
    /\ DeckIdle

\* The status poll with no (or a stale) status file: the settings model.
SettingsPoll(model) ==
    /\ LET r == UpdateFromSettings(app_state, model) IN
       /\ app_state' = r.state
       /\ state_op' = StateOp("status", 0, r.ret, r.state # app_state)
       /\ set_model_arg' = r.set
    /\ DeckIdle

\* App::new: AppState::with_config of any configuration.
InitState ==
    /\ LoopAtRest
    /\ GifInit
    /\ InputInit
    /\ LockInit
    /\ KnobInit
    /\ app_state \in {with_config(models, default) :
                         models \in ModelLists, default \in ModelNames \cup {OtherModel}}
    /\ state_op = NoStateOp
    /\ set_model_arg = None

NextState ==
    \/ \E direction \in {-1, 1} : CycleModel(direction)
    \/ ConfirmModel
    \/ \E status \in Statuses : StatusPoll(status)
    \/ \E model \in {None, OtherModel} \cup ModelNames : SettingsPoll(model)

SpecState == InitState /\ [][NextState]_vars

----------------------------------------------------------------------------
\* The animator under the lock check and the device link (SpecScreen): the
\* steps of run_main_loop that touch the cursors, with screen_locked and
\* self.device.

\* What these steps leave alone.
ScreenRest ==
    UNCHANGED <<pc, event, focused_app, pending_app_check, app_tasks,
                last_device_write, last_gif_tick, input_state, held,
                button_press_times, long_press_fired, stepVars, pressVars,
                inputVars, appVars, lockVars, knobVars>>

\* The lock check finds is_screen_locked() # was_locked: the flag is set,
\* then redraw_all_buttons, which returns at once without a device.
ScreenLockChanged ==
    /\ ~panicked
    /\ screen_locked' = ~screen_locked
    /\ IF device
       THEN RedrawGif(~screen_locked)
       ELSE /\ gif_op' = GifOp("lock", NoUrl, <<>>)
            /\ UNCHANGED <<gif_cache, animations, loading, tasks, gif_cfg, panicked>>
    /\ UNCHANGED <<device, connected>>
    /\ ScreenRest

\* redraw_all_buttons after a focus change or a web command, with a device.
ScreenRedraw ==
    /\ device
    /\ RedrawGif(screen_locked)
    /\ UNCHANGED <<device, connected, screen_locked>>
    /\ ScreenRest

\* poll_event returns the "Device disconnected" error.
ScreenDisconnected ==
    /\ ~panicked
    /\ device
    /\ device' = FALSE
    /\ connected' = FALSE
    /\ gif_op' = GifOp("disconnect", NoUrl, <<>>)
    /\ UNCHANGED <<gif_cache, animations, loading, tasks, gif_cfg, panicked>>
    /\ UNCHANGED screen_locked
    /\ ScreenRest

\* DeviceManager::connect succeeds: render_initial_display.
ScreenReconnected ==
    /\ ~device
    /\ device' = TRUE
    /\ connected' = TRUE
    /\ RenderInitialGif(screen_locked)
    /\ UNCHANGED screen_locked
    /\ ScreenRest

\* The GIF gate is open: update_gif_animations, which ticks only with a device.
ScreenTick ==
    /\ device
    /\ TickGif
    /\ UNCHANGED <<device, connected, screen_locked>>
    /\ ScreenRest

NextScreen ==
    \/ ScreenLockChanged
    \/ ScreenRedraw
    \/ ScreenDisconnected
    \/ ScreenReconnected
    \/ ScreenTick
    \/ GifAdvance
    \/ \E url \in Urls, raw \in RawGifs : StoreLoadedGif(url, raw)

\* App::run with a device: render_initial_display has run, unlocked, and
\* run_main_loop is entered.
InitScreen ==
    /\ LoopAtRest
    /\ gif_cache = <<>>
    /\ gif_cfg \in [GifButtons -> Urls \cup {NoUrl}]
    /\ animations = RenderAll(<<>>, FALSE)
    /\ loading = {}
    /\ tasks = [u \in Urls |-> 0]
    /\ panicked = FALSE
    /\ gif_op = GifOp("render", NoUrl, <<>>)
    /\ InputInit
    /\ AppInit
    /\ LockInit
    /\ KnobInit

SpecScreen == InitScreen /\ [][NextScreen]_vars

----------------------------------------------------------------------------
\* The encoder knobs (SpecKnob): handle_encoder_press and its debounce, with
\* the model knob's rotation.

KnobRest == UNCHANGED <<loopVars, stepVars, pressVars, gifVars, inputVars, lockVars>>

DebouncedNever(last, encoder) == FALSE
DebouncedAnyEncoder(last, encoder) ==
    \E e \in DOMAIN last : last[e] < ENCODER_DEBOUNCE
\* "if let Some(last) = self.last_encoder_press.get(&encoder)" with
\* "now.duration_since(*last) < Duration::from_millis(300)"
Debounced(last, encoder) ==
    /\ encoder \in DOMAIN last
    /\ last[encoder] < ENCODER_DEBOUNCE

RecordIgnoredPress(last, encoder) ==
    [e \in (DOMAIN last) \cup {encoder} |-> IF e = encoder THEN 0 ELSE last[e]]
\* The map an ignored press leaves: the early return comes before the insert.
IgnoredPress(last, encoder) == last

\* self.last_encoder_press.insert(encoder, now)
RecordPress(last, encoder) ==
    [e \in (DOMAIN last) \cup {encoder} |-> IF e = encoder THEN 0 ELSE last[e]]

\* handle_event(EncoderPress(encoder)): handle_encoder_press.  Encoder 1
\* confirms the model selection; the other encoders send a key or set
\* play_intro.
EncoderPress(encoder) ==
    /\ IF Debounced(last_encoder_press, encoder)
       THEN /\ last_encoder_press' = IgnoredPress(last_encoder_press, encoder)
            /\ enc_op' = EncOp("press", encoder, FALSE, FALSE)
            /\ UNCHANGED <<since_action, appVars>>
       ELSE /\ last_encoder_press' = RecordPress(last_encoder_press, encoder)
            /\ enc_op' = EncOp("press", encoder,
                               encoder \notin DOMAIN last_encoder_press, TRUE)
            /\ since_action' = [since_action EXCEPT ![encoder] = 0]
            /\ IF encoder = 1
               THEN /\ app_state' = IF app_state.model_selecting
                                     THEN confirm_model(app_state) ELSE app_state
                    /\ state_op' = StateOp("confirm", 0, app_state.model_selecting,
                                           app_state' # app_state)
                    /\ set_model_arg' = None
               ELSE UNCHANGED appVars
    /\ KnobRest

\* handle_event(EncoderRotate {encoder: 1, direction}): cycle_model.
EncoderRotate(direction) ==
    /\ app_state' = cycle_model(app_state, direction)
    /\ state_op' = StateOp("cycle", direction, FALSE, app_state' # app_state)
    /\ set_model_arg' = None
    /\ enc_op' = EncOp("rotate", 1, FALSE, FALSE)
    /\ UNCHANGED <<last_encoder_press, since_action>>
    /\ KnobRest

\* DebounceStep ms pass.
KnobAdvance ==
    /\ last_encoder_press' =
          [e \in DOMAIN last_encoder_press |->
              Saturate(last_encoder_press[e], DebounceStep, ENCODER_DEBOUNCE)]
    /\ since_action' =
          [e \in EncoderSlots |-> Saturate(since_action[e], DebounceStep, ENCODER_DEBOUNCE)]
    /\ enc_op' = NoEncOp
    /\ UNCHANGED appVars
    /\ KnobRest

InitKnob ==
    /\ LoopAtRest
    /\ GifInit
    /\ InputInit
    /\ AppInit
    /\ LockInit
    /\ KnobInit

NextKnob ==
    \/ \E encoder \in EncoderSlots : EncoderPress(encoder)
    \/ \E direction \in {-1, 1} : EncoderRotate(direction)
    \/ KnobAdvance

SpecKnob == InitKnob /\ [][NextKnob]_vars

----------------------------------------------------------------------------
\* The mutexes around the animation caches (SpecLock): the animator of
\* SpecGif with every lock() and every blocking fetch as a step of its own.
\* std::sync::Mutex::lock blocks the caller until the mutex is free: a step
\* that locks is enabled only then.

\* Only the animator and the two mutexes are part of this specification.
LockRest ==
    UNCHANGED <<loopVars, stepVars, pressVars, inputVars, appVars, gif_cfg, gif_op,
                knobVars>>

NoTaskResult == [url |-> NoUrl, gif |-> NoGif]

\* get_current_frame(b) is Some: the cursor's entry is cached with frames and
\* the cursor's index is one of them.
get_current_frame(anims, b) ==
    /\ has_animation(anims, b)
    /\ Resolved(anims[b])
    /\ anims[b].current_frame < Len(gif_cache[anims[b].gif_url].frames)

\* The main loop takes the animator's mutex: in render_button_with_config_and_id
\* for button b, in redraw_all_buttons (clear_all), in
\* start_gif_background_loading, or in update_gif_animations (tick).
MainLock(op, b) ==
    /\ ~panicked
    /\ main_at = "idle"
    /\ animator_mutex = "free"
    /\ op = "render" => gif_cfg[b] # NoUrl
    /\ animator_mutex' = "main"
    /\ main_at' = op
    /\ main_button' = IF op = "render" THEN b ELSE main_button
    /\ UNCHANGED <<static_mutex, static_cache, task_result>>
    /\ UNCHANGED <<gif_cache, animations, loading, tasks, panicked>>
    /\ LockRest

\* render_button_with_config_and_id under the animator's mutex: register the
\* cursor, look for its current frame; the guard is dropped at the end of the
\* "if let"; without a frame the render goes on to load_gif_image.
RenderLocked ==
    /\ main_at = "render"
    /\ LET anims == IF has_animation(animations, main_button) THEN animations
                    ELSE set_button_gif(animations, main_button, gif_cfg[main_button])
       IN /\ animations' = anims
          /\ main_at' = IF get_current_frame(anims, main_button) THEN "idle"
                        ELSE "fallback"
    /\ animator_mutex' = "free"
    /\ UNCHANGED <<static_mutex, main_button, static_cache, task_result>>
    /\ UNCHANGED <<gif_cache, loading, tasks, panicked>>
    /\ LockRest

\* redraw_all_buttons: clear_all under the animator's mutex.
ClearLocked ==
    /\ main_at = "clear"
    /\ animations' = <<>>
    /\ animator_mutex' = "free"
    /\ main_at' = "idle"
    /\ UNCHANGED <<static_mutex, main_button, static_cache, task_result>>
    /\ UNCHANGED <<gif_cache, loading, tasks, panicked>>
    /\ LockRest

\* start_gif_background_loading: get_pending_urls and mark_loading under the
\* animator's mutex; the tasks are spawned after the guard is dropped and
\* start with the blocking fetch.
PendingLocked ==
    /\ main_at = "pending"
    /\ loading' = loading \cup {u \in Urls : get_pending_urls(animations, u) > 0}
    /\ tasks' = [u \in Urls |-> tasks[u] + get_pending_urls(animations, u)]
    /\ animator_mutex' = "free"
    /\ main_at' = "idle"
    /\ UNCHANGED <<static_mutex, main_button, static_cache, task_result>>
    /\ UNCHANGED <<gif_cache, animations, panicked>>
    /\ LockRest

\* update_gif_animations: tick under the animator's mutex.
TickLocked ==
    /\ main_at = "tick"
    /\ IF \E b \in DOMAIN animations : TickPanics(animations[b])
       THEN /\ panicked' = TRUE
            /\ UNCHANGED <<animations, animator_mutex, main_at>>
       ELSE /\ animations' = [b \in DOMAIN animations |-> TickCursor(animations[b])]
            /\ animator_mutex' = "free"
            /\ main_at' = "idle"
            /\ UNCHANGED panicked
    /\ UNCHANGED <<static_mutex, main_button, static_cache, task_result>>
    /\ UNCHANGED <<gif_cache, loading, tasks>>
    /\ LockRest

\* load_gif_image: cache.lock(), the URL is in GIF_CACHE: return, the guard is
\* dropped.
FallbackHit ==
    /\ main_at = "fallback"
    /\ static_mutex = "free"
    /\ gif_cfg[main_button] \in static_cache
    /\ main_at' = "idle"
    /\ UNCHANGED <<animator_mutex, static_mutex, main_button, static_cache, task_result>>
    /\ UNCHANGED <<gif_cache, animations, loading, tasks, panicked>>
    /\ LockRest

\* load_gif_image: cache.lock(), the URL is not in GIF_CACHE: ureq::get(url)
\* is called with cache_guard alive.
FallbackMiss ==
    /\ main_at = "fallback"
    /\ static_mutex = "free"
    /\ gif_cfg[main_button] \notin static_cache
    /\ static_mutex' = "main"
    /\ main_at' = "fetching"
    /\ UNCHANGED <<animator_mutex, main_button, static_cache, task_result>>
    /\ UNCHANGED <<gif_cache, animations, loading, tasks, panicked>>
    /\ LockRest

\* load_gif_image: the fetch returns, cache_guard.insert(url, result), the
\* guard is dropped at the return.
FallbackFetched ==
    /\ main_at = "fetching"
    /\ static_cache' = static_cache \cup {gif_cfg[main_button]}
    /\ static_mutex' = "free"
    /\ main_at' = "idle"
    /\ UNCHANGED <<animator_mutex, main_button, task_result>>
    /\ UNCHANGED <<gif_cache, animations, loading, tasks, panicked>>
    /\ LockRest

\* A background task: spawn_blocking(fetch_and_decode_gif) has returned, the
\* task takes the animator's mutex.
TaskLock(url, raw) ==
    /\ ~panicked
    /\ tasks[url] > 0
    /\ animator_mutex = "free"
    /\ animator_mutex' = "task"
    /\ task_result' = [url |-> url, gif |-> fetch_and_decode_gif(raw)]
    /\ UNCHANGED <<static_mutex, main_at, main_button, static_cache>>
    /\ UNCHANGED <<gif_cache, animations, loading, tasks, panicked>>
    /\ LockRest

\* The background task: store_loaded_gif under the animator's mutex, the task ends.
TaskStore ==
    /\ animator_mutex = "task"
    /\ tasks' = [tasks EXCEPT ![task_result.url] = tasks[task_result.url] - 1]
    /\ loading' = loading \ {task_result.url}
    /\ gif_cache' = [u \in (DOMAIN gif_cache) \cup {task_result.url} |->
                       IF u = task_result.url THEN task_result.gif ELSE gif_cache[u]]
    /\ animator_mutex' = "free"
    /\ task_result' = NoTaskResult
    /\ UNCHANGED <<static_mutex, main_at, main_button, static_cache>>
    /\ UNCHANGED <<animations, panicked>>
    /\ LockRest

\* The main loop is inside the blocking fetch of load_gif_image.
MainFetching == main_at = "fetching"

InitLock ==
    /\ LoopAtRest
    /\ gif_cache = <<>>
    /\ animations = <<>>
    /\ loading = {}
    /\ tasks = [u \in Urls |-> 0]
    /\ gif_cfg \in [GifButtons -> Urls \cup {NoUrl}]
    /\ panicked = FALSE
    /\ gif_op = NoGifOp
    /\ InputInit
    /\ AppInit
    /\ LockInit
    /\ KnobInit

NextLock ==
    \/ \E op \in {"render", "clear", "pending", "tick"}, b \in GifButtons : MainLock(op, b)
    \/ RenderLocked
    \/ ClearLocked
    \/ PendingLocked
    \/ TickLocked
    \/ FallbackHit
    \/ FallbackMiss
    \/ FallbackFetched
    \/ \E url \in Urls, raw \in RawGifs : TaskLock(url, raw)
    \/ TaskStore

SpecLock == InitLock /\ [][NextLock]_vars

----------------------------------------------------------------------------
\* Properties of the press classifier and the main loop (Spec)

\* C1: for every press, the poll-triggered long-press action and the
\* release-triggered action never both execute: when check_long_press fired
\* since the last handled ButtonUp(id), the handled ButtonUp(id) executes no
\* action.
C1_ReleaseSilentAfterLongPress ==
    (lastUp.kind = "up" /\ lastUp.firedSinceUp) =>
        (lastUp.op = "none" /\ acted = {})

\* C1 witness: a handled ButtonUp of a press whose ButtonDown was handled and
\* for which check_long_press fired.
C1_Witness ==
    /\ lastUp.kind = "up"
    /\ lastUp.down # "no"
    /\ lastUp.firedSinceUp
    /\ lastUp.pollFires = 1

\* C2: while screen_locked is set no event is given to handle_event and no
\* button action of any kind is executed, the hold action of check_long_press
\* included.
C2_NoActionWhileLocked ==
    screen_locked => (handled = NoEvent /\ acted = {})

\* C3: for every press of a MIC button whose ButtonDown and ButtonUp are both
\* handled, exactly one of the poll-triggered fire and the release-triggered
\* action executes: never zero, never two.
C3_ExactlyOneActionPerPress ==
    (lastUp.kind = "up" /\ lastUp.mic /\ lastUp.down = "mic") =>
        lastUp.pollFires + (IF lastUp.op = "none" THEN 0 ELSE 1) = 1

\* C4: once check_long_press has been called with a MIC button held past the
\* threshold, the hold action has fired exactly once for that press, however
\* many calls follow.
C4_HoldFiresExactlyOnce ==
    \A b \in Buttons :
        (polledPast[b] /\ downHandled[b] = "mic") => pollFires[b] = 1

\* C5 (as claimed): no button id is at the same time in button_press_times
\* and in long_press_fired.
C5_NeverInBoth ==
    \A b \in Buttons :
        ~(b \in DOMAIN button_press_times /\ b \in long_press_fired)

\* C5 (amended): every id in long_press_fired has a press record (firing keeps
\* the record), and a handled ButtonUp removes the id's press record.
C5_FiredHasPressRecord ==
    /\ long_press_fired \subseteq DOMAIN button_press_times
    /\ handled.kind = "up" => handled.button \notin DOMAIN button_press_times

\* C5 witness: the long press fired and the id is in both collections.
C5_Witness ==
    \E b \in Buttons :
        /\ b \in long_press_fired
        /\ b \in DOMAIN button_press_times
        /\ pollFires[b] = 1

\* C6: after a handled ButtonUp(id) the id is in neither collection, and a
\* release is suppressed only by a marker set during the same press, never by
\* the marker of an earlier press.
C6_MarkerClearedPerPress ==
    lastUp.kind = "up" =>
        /\ lastUp.button \notin long_press_fired
        /\ lastUp.button \notin DOMAIN button_press_times
        /\ lastUp.already_fired => lastUp.pollFires >= 1

\* C7: handle_button_up for an id without a press record returns normally,
\* with a zero duration and a short-press classification.
C7_MissingRecordIsShortPress ==
    (lastUp.kind = "up" /\ ~lastUp.hadRecord) =>
        /\ lastUp.duration = 0
        /\ ~lastUp.is_long_press
        /\ ~lastUp.already_fired
        /\ lastUp.op = ExecuteAction(focused_app, lastUp.button, FALSE)
        /\ pc = "long_press"

\* C7 witness: a handled ButtonUp for a button without a press record.
C7_Witness == lastUp.kind = "up" /\ ~lastUp.hadRecord

\* C9: animation writes are issued only when device_cooldown has elapsed since
\* the recorded last device write; a GIF step taken before that changes
\* nothing (no write, no tick, nothing kept for later).
C9_GifWritesGated ==
    /\ [](wrote.src = "gif" => wrote.recOk)
    /\ [][(pc = "gif" /\ pc' = "sleep" /\ last_device_write < device_cooldown) =>
            /\ wrote' = NoWrite
            /\ UNCHANGED <<last_gif_tick, last_device_write, sinceWrite>>]_vars

\* C9 witness: an animation write was issued.
C9_Witness == wrote.src = "gif" /\ wrote.recOk /\ pc = "sleep"

\* C10: any two successive device writes, whatever their origin, are at least
\* device_cooldown apart.
C10_AllWritesSpaced == wrote.src # "none" => wrote.gapOk

\* C11: the writes caused by an input event, a long press or a redraw command
\* are issued in the step that handles them, whatever the cooldown, at a
\* position of the iteration that precedes the animation step; animation
\* writes are issued in the last step of the iteration only.
C11_PriorityWritesFirst ==
    /\ [](/\ handled.kind # "none" => wrote.src = "event"
          /\ ((\E a \in acted : a.src = "poll") /\ device) => wrote.src = "long_press"
          /\ wrote.src \in {"redraw", "event", "long_press"} =>
                pc \in {"commands", "long_press", "status"}
          /\ wrote.src = "gif" => pc = "sleep")
    /\ [][(pc = "commands" /\ pc' = "commands" /\ device /\ last_device_write' = 0) =>
            wrote'.src = "redraw"]_vars

\* C11 witness: an input event was handled and its write issued although
\* device_cooldown had not elapsed since the recorded last write.
C11_Witness ==
    /\ handled.kind # "none"
    /\ wrote.src = "event"
    /\ ~wrote.recOk

\* C12: whenever a step gets a disconnected error from the hardware link, in
\* poll_event or in a device write, the device handle is dropped and
\* connected is false after that step.
C12_LinkErrorDropsDevice ==
    link_error # "none" => (~device /\ ~connected)

\* C13: once the device handle is dropped the loop keeps attempting to
\* connect; a successful attempt sets connected and performs the full
\* re-render in the same step, before any other device write; so with the
\* hardware available again the surface is eventually re-rendered.
C13_ReconnectRerenders ==
    /\ [][(~device /\ device') => (connected' /\ wrote'.src = "reconnect")]_vars
    /\ [](~device => (~connected /\ wrote = NoWrite))
    /\ (~device) ~> (device /\ connected /\ wrote.src = "reconnect")

\* C13 witness: the device was dropped by a poll error and a later connect
\* succeeded, with the re-render as the first write.
C13_Witness ==
    /\ device /\ connected
    /\ wrote.src = "reconnect"
    /\ pc = "long_press"

----------------------------------------------------------------------------
\* Properties of the GIF animator (SpecGif)

\* C14: in every tick, a cursor whose entry is absent, loading or failed
\* pushes nothing and is left unchanged; a cursor whose entry is resolved and
\* that has not rendered yet pushes exactly frame 0; a cursor that has
\* rendered pushes nothing before the delay of its current frame has elapsed.
C14_TickOutput ==
    [][gif_op'.op = "tick" =>
         \A b \in DOMAIN animations :
            LET c == animations[b]
                ok == /\ c.gif_url \in DOMAIN gif_cache
                      /\ gif_cache[c.gif_url].ok
            IN  /\ ~ok => /\ b \notin DOMAIN gif_op'.frames
                           /\ animations'[b] = c
                /\ (ok /\ ~c.has_rendered) =>
                       /\ b \in DOMAIN gif_op'.frames
                       /\ gif_op'.frames[b] = 0
                       /\ animations'[b].has_rendered
                       /\ animations'[b].current_frame = 0
                /\ (ok /\ c.has_rendered /\ ~panicked' /\
                     c.last_frame_time < gif_cache[c.gif_url].frames[c.current_frame + 1]) =>
                       /\ b \notin DOMAIN gif_op'.frames
                       /\ animations'[b] = c]_vars

\* C14 witness: a tick pushed frame 0 for a cursor whose entry had resolved
\* while another cursor, whose entry is not resolved, pushed nothing.
C14_Witness ==
    /\ gif_op.op = "tick"
    /\ \E b \in DOMAIN gif_op.frames :
          /\ gif_op.frames[b] = 0
          /\ animations[b].current_frame = 0
          /\ animations[b].last_frame_time = 0
    /\ \E b \in DOMAIN animations :
          /\ b \notin DOMAIN gif_op.frames
          /\ animations[b].gif_url \notin DOMAIN gif_cache

\* C8: every cursor whose URL resolves to a successful cache entry has
\* current_frame < frames.len(), and tick never indexes out of range.
C8_CursorInRange ==
    /\ ~panicked
    /\ \A b \in DOMAIN animations :
          (/\ animations[b].gif_url \in DOMAIN gif_cache
           /\ gif_cache[animations[b].gif_url].ok) =>
             animations[b].current_frame < Len(gif_cache[animations[b].gif_url].frames)

C16_FailureNeverRetried ==
    /\ [](\A u \in DOMAIN gif_cache :
            ~gif_cache[u].ok =>
                /\ is_cached(u)
                /\ ~is_loading(u)
                /\ get_pending_urls(animations, u) = 0)
    /\ [][gif_op'.op = "store" =>
            /\ gif_op'.url \in DOMAIN gif_cache'
            /\ gif_op'.url \notin loading']_vars
    /\ [][\A u \in DOMAIN gif_cache :
            ~gif_cache[u].ok =>
                /\ u \in DOMAIN gif_cache'
                /\ tasks'[u] <= tasks[u]]_vars

\* C16 witness: redraw_all_buttons (clear_all, render,
\* start_gif_background_loading) has just run with a cursor bound to a URL
\* whose fetch failed, and no task was started for it.
C16_Witness ==
    /\ gif_op.op = "redraw"
    /\ \E b \in DOMAIN animations :
          /\ animations[b].gif_url \in DOMAIN gif_cache
          /\ ~gif_cache[animations[b].gif_url].ok
          /\ tasks[animations[b].gif_url] = 0
          /\ animations[b].gif_url \notin loading

\* C17: after redraw_all_buttons (the full clear of a profile change) no
\* failed entry is left in the cache.
C17_RedrawClearsFailures ==
    gif_op.op = "redraw" => \A u \in DOMAIN gif_cache : gif_cache[u].ok

\* C18: no URL is both loading and cached; a URL enters the cache only from
\* the loading set; a loading URL stays loading until it is cached; a cached
\* URL stays cached and never becomes loading again.
C18_CacheLifecycle ==
    /\ [](loading \cap DOMAIN gif_cache = {})
    /\ [][\A u \in Urls :
            /\ (u \notin DOMAIN gif_cache /\ u \in DOMAIN gif_cache') => u \in loading
            /\ (u \notin loading /\ u \in loading') =>
                   (u \notin DOMAIN gif_cache /\ tasks'[u] > tasks[u])
            /\ u \in loading => (u \in loading' \/ u \in DOMAIN gif_cache')
            /\ u \in DOMAIN gif_cache =>
                   (u \in DOMAIN gif_cache' /\ u \notin loading')]_vars

\* C18 witness: a task has just stored the result of a URL that was loading,
\* while another URL is still loading.
C18_Witness ==
    /\ gif_op.op = "store"
    /\ gif_op.url \in DOMAIN gif_cache
    /\ gif_op.url \notin loading
    /\ loading # {}

\* C19: a button rendered with a GIF URL does not stay forever with that URL
\* neither loading nor cached: a background fetch is eventually started, also
\* when the button was rendered by render_initial_display.
C19_FetchEventuallyStarted ==
    \A u \in Urls :
        []<>(\/ panicked
             \/ ~(/\ \E b \in DOMAIN animations : animations[b].gif_url = u
                  /\ u \notin loading
                  /\ u \notin DOMAIN gif_cache))

----------------------------------------------------------------------------
\* Properties of the focused-application query (Spec)

\* C20: at most one get_focused_app task is outstanding, it is the one whose
\* handle is pending, and a task is spawned only by a step that starts with
\* no unfinished handle.
C20_OneAppTask ==
    /\ [](/\ app_tasks <= 1
          /\ app_tasks = IF pending_app_check THEN 1 ELSE 0)
    /\ [][(pc = "app_check" /\ pc' = "lock_check" /\ pending_app_check /\
           focused_app' = focused_app /\ app_tasks' = app_tasks) =>
              pending_app_check']_vars

\* C20 witness: an iteration passed the application check with a task still
\* outstanding and its handle kept.
C20_Witness ==
    /\ pc = "lock_check"
    /\ pending_app_check
    /\ app_tasks = 1
    /\ focused_app = "Slack"

----------------------------------------------------------------------------
\* Properties of the decoder (SpecDecode) and of the edge tracker (SpecInput)

\* A step of poll_event that read a report.
ReportStep == \E event_type \in SampleCodes, state \in SampleStates :
                  PollReport(event_type, state)

\* C23: applying the same ButtonStateChange vector twice in a row yields at
\* most one event: when the first application emitted an event, the second
\* emits None and leaves the stored button vector unchanged.
C23_SameVectorTwice ==
    [][(/\ ReportStep
        /\ decoded.kind = "ButtonStateChange"
        /\ polled.kind \in {"down", "up"}
        /\ decoded' = decoded)
       => (polled' = NoEvent /\ edge_buttons' = edge_buttons)]_vars

\* C24: a report yields at most one event; a ButtonStateChange changes at most
\* one slot of the stored button vector, the slot of the ButtonDown/ButtonUp it
\* emits, and sets it to the sample; a report that yields no event leaves both
\* stored vectors as they are; the stored vectors keep their lengths, and a
\* sample slot beyond the stored length is skipped.
C24_OneSlotPerSample ==
    /\ [][ReportStep =>
            LET changed == {i \in ButtonSlots : edge_buttons'[i] # edge_buttons[i]} IN
            /\ polled'.kind \in {"none", "down", "up", "encoder_press",
                                 "encoder_release", "encoder_rotate"}
            /\ polled'.kind = "none" =>
                   (edge_buttons' = edge_buttons /\ edge_encoders' = edge_encoders)
            /\ decoded'.kind = "ButtonStateChange" =>
                   /\ edge_encoders' = edge_encoders
                   /\ polled'.kind \in {"none", "down", "up"}
                   /\ polled'.kind = "none" => changed = {}
                   /\ polled'.kind \in {"down", "up"} =>
                          /\ changed = {polled'.button}
                          /\ edge_buttons'[polled'.button] = (polled'.kind = "down")
                          /\ decoded'.v[polled'.button] = (polled'.kind = "down")
            /\ decoded'.kind # "ButtonStateChange" => changed = {}]_vars
    /\ [](/\ DOMAIN edge_buttons = ButtonSlots
          /\ DOMAIN edge_encoders = EncoderSlots
          /\ LET long == [i \in 0..BUTTON_COUNT |-> i = BUTTON_COUNT]
                 r == PollEvent(edge_buttons, edge_encoders, ButtonStateChange(long))
             IN /\ DOMAIN r.buttons = ButtonSlots
                /\ r.event.kind \in {"down", "up"} => r.event.button \in ButtonSlots)

\* A report with two buttons differing from the stored vector changed one slot only.
C24_Witness ==
    /\ decoded.kind = "ButtonStateChange"
    /\ polled.kind = "up"
    /\ \E i \in ButtonSlots : decoded.v[i] /\ ~edge_buttons[i]

\* C25: an encoder press report (state byte non-zero) yields EncoderPress for
\* the encoder of its code and leaves the encoder's slot false, whatever the
\* reports before it were: consecutive press reports each yield EncoderPress.
C25_EveryPressReported ==
    [][(/\ ReportStep
        /\ decoded'.kind = "EncoderStateChange"
        /\ sample'[2] # 0)
       => (/\ polled' = [kind |-> "encoder_press",
                         encoder |-> EncoderPressIndex(sample'[1])]
           /\ \A i \in EncoderSlots : ~edge_encoders'[i])]_vars

\* The second report since the connect is an encoder press and is reported.
C25_Witness ==
    /\ polls = 2
    /\ decoded.kind = "EncoderStateChange"
    /\ sample[2] # 0
    /\ polled.kind = "encoder_press"

\* C29: on a freshly connected device the report (c, non-zero) of a main
\* button code c yields ButtonDown(c - 1), and the report (c, 0) that follows
\* it yields ButtonUp(c - 1).
C29_PressThenRelease ==
    /\ [][(/\ ReportStep
           /\ polls = 0
           /\ sample'[1] \in 1..10
           /\ sample'[2] # 0)
          => polled' = [kind |-> "down", button |-> sample'[1] - 1]]_vars
    /\ [][(/\ ReportStep
           /\ polls = 1
           /\ sample # NoSample
           /\ sample[1] \in 1..10
           /\ sample[2] # 0
           /\ sample' = <<sample[1], 0>>)
          => polled' = [kind |-> "up", button |-> sample[1] - 1]]_vars

\* Two reports since the connect; the second, (0x0a, 0x00), gave ButtonUp(9).
C29_Witness ==
    /\ polls = 2
    /\ sample = <<10, 0>>
    /\ polled = [kind |-> "up", button |-> 9]

\* C34: for every sequence of button reports, each ButtonDown(i) follows a
\* press report for button i and each ButtonUp(i) a release report for button
\* i: a report of a main button yields no event for another button, and a
\* press report for a button that is stored as released yields its ButtonDown.
\* Stated for the main buttons with no strip button stored as held.
C34_EventsFollowReports ==
    [][(/\ ReportStep
        /\ sample'[1] \in 1..10
        /\ \A j \in 10..(BUTTON_COUNT - 1) : ~edge_buttons[j]) =>
          LET i == sample'[1] - 1
              press == sample'[2] # 0
          IN /\ polled'.kind \in {"down", "up"} =>
                    (polled'.button = i /\ (polled'.kind = "down") = press)
             /\ (press /\ ~edge_buttons[i]) =>
                    polled' = [kind |-> "down", button |-> i]]_vars

\* C38: in every reachable state of the edge tracker all encoder slots of
\* InputState are false, and poll_event never returns EncoderRelease.
C38_NoEncoderRelease ==
    /\ \A i \in EncoderSlots : ~edge_encoders[i]
    /\ polled.kind # "encoder_release"

\* The release report of encoder 0 (0x33 with state 0x00) was read as the
\* second report since the connect and gave no event.
C38_Witness ==
    /\ polls = 2
    /\ sample = <<51, 0>>
    /\ decoded.kind = "EncoderStateChange"
    /\ polled = NoEvent

\* C26 (as claimed): every report of a main button code decodes to a
\* ButtonStateChange of length BUTTON_COUNT with exactly one true slot, the
\* slot (code - 1), whatever the state byte.
C26_ExactlyOneTrueSlot ==
    (decoded # NotDecoded /\ sample[1] \in 1..10) =>
        /\ decoded.kind = "ButtonStateChange"
        /\ DOMAIN decoded.v = ButtonSlots
        /\ {i \in ButtonSlots : decoded.v[i]} = {sample[1] - 1}

\* C26 (amended): every report of a main button code decodes to a
\* ButtonStateChange of length BUTTON_COUNT that is false in every slot but
\* (code - 1); that slot is true exactly when the state byte is non-zero.
C26_OneSlotFollowsState ==
    (decoded # NotDecoded /\ sample[1] \in 1..10) =>
        /\ decoded.kind = "ButtonStateChange"
        /\ DOMAIN decoded.v = ButtonSlots
        /\ {i \in ButtonSlots : decoded.v[i]} =
               IF sample[2] # 0 THEN {sample[1] - 1} ELSE {}

\* The last main button code with the state byte 0xff decoded to slot 9.
C26_Witness ==
    /\ sample = <<10, 255>>
    /\ decoded.kind = "ButtonStateChange"
    /\ decoded.v[9]

\* The rotation codes of each encoder, as the arms of process_input pair them:
\* 0xa0/0xa1, 0x50/0x51, 0x90/0x91, 0x70/0x71.
RotationCcw(e) == CASE e = 0 -> 160 [] e = 1 -> 80 [] e = 2 -> 144 [] e = 3 -> 112
RotationCw(e)  == CASE e = 0 -> 161 [] e = 1 -> 81 [] e = 2 -> 145 [] e = 3 -> 113

KnownCodes ==
    (1..10) \cup (64..67) \cup {51, 53, 54, 55} \cup {80, 81, 112, 113, 144, 145, 160, 161}

\* C28: every (event_type, state) decodes to one of the four DeviceInput
\* variants, never to an error, and every code outside the button,
\* encoder-press and rotation codes decodes to NoData.
C28_TotalDecoder ==
    decoded # NotDecoded =>
        /\ decoded.kind \in {"NoData", "ButtonStateChange", "EncoderStateChange",
                             "EncoderTwist"}
        /\ sample[1] \notin KnownCodes => decoded = NoData
        /\ sample[1] \in KnownCodes => decoded.kind # "NoData"

\* An unknown code with a non-zero state byte decoded to NoData.
C28_Witness ==
    /\ sample = <<255, 255>>
    /\ decoded = NoData

----------------------------------------------------------------------------
\* Properties of AppState (SpecState)

\* C22: the status poll updates the display and writes to the device only if
\* it modified AppState: update_from_claude_status returns true only when a
\* field changed.
C22_WriteOnlyIfModified ==
    (state_op.op = "status" /\ state_op.ret) => state_op.modified

\* k calls of cycle_model in one direction
RECURSIVE CycleTimes(_, _, _)
CycleTimes(st, direction, k) ==
    IF k = 0 THEN st ELSE CycleTimes(cycle_model(st, direction), direction, k - 1)

SameModel(s, t) == s.model = t.model /\ s.model_index = t.model_index

\* C30: cycle_model sets model_index to (i + 1) mod n for a positive direction
\* and to (i - 1) mod n otherwise, and model to available_models[model_index];
\* with an empty list it changes nothing.  From every reachable state n
\* forward steps lead back to the model and index, and so does a forward step
\* followed by a backward step.
C30_CycleModel ==
    /\ [][state_op'.op = "cycle" =>
            LET n == Len(app_state.available_models)
                i == app_state.model_index
            IN IF n = 0 THEN app_state' = app_state
               ELSE /\ app_state'.model_index =
                          IF state_op'.dir > 0 THEN (i + 1) % n ELSE (i + n - 1) % n
                    /\ app_state'.model =
                          app_state.available_models[app_state'.model_index + 1]
                    /\ app_state'.available_models = app_state.available_models]_vars
    /\ [](/\ SameModel(CycleTimes(app_state, 1, Len(app_state.available_models)),
                       app_state)
          /\ SameModel(cycle_model(cycle_model(app_state, 1), -1), app_state)
          /\ state_op.op = "cycle" /\ app_state.available_models # <<>> =>
                app_state.model = app_state.available_models[app_state.model_index + 1])

\* A backward step from the first of three models wrapped to the last.
C30_Witness ==
    /\ state_op.op = "cycle"
    /\ state_op.dir = -1
    /\ Len(app_state.available_models) = 3
    /\ app_state.model_index = 2

\* model = available_models[model_index]
ModelAtIndex(st) ==
    /\ st.model_index < Len(st.available_models)
    /\ st.model = st.available_models[st.model_index + 1]

\* What set_model(name) is to make of st: nothing for a name that is not
\* listed, the name and its first position otherwise.
SetModelResult(st, name, t) ==
    LET models == st.available_models
        listed == \E i \in 1..Len(models) : models[i] = name
    IN /\ t.available_models = models
       /\ ~listed => (t.model = st.model /\ t.model_index = st.model_index)
       /\ listed => /\ t.model = name
                     /\ t.model_index < Len(models)
                     /\ models[t.model_index + 1] = name
                     /\ \A j \in 1..t.model_index : models[j] # name
       /\ ModelAtIndex(st) => ModelAtIndex(t)

\* C31: set_model with a name that is not in available_models leaves model
\* and model_index unchanged; with a listed name it sets model to the name and
\* model_index to its position; model = available_models[model_index] is
\* preserved.  Checked for the set_model calls the status poll makes and for
\* a call with any name from every reachable AppState.
C31_SetModel ==
    /\ [][set_model_arg' # None =>
             SetModelResult(app_state, set_model_arg', app_state')]_vars
    /\ [](\A name \in ModelNames \cup {OtherModel} :
             SetModelResult(app_state, name, set_model(app_state, name)))

\* The status poll called set_model with a listed name that is not the first
\* of the list, and with a name that is not listed.
C31_Witness ==
    /\ state_op.op = "status"
    /\ set_model_arg = "sonnet"
    /\ app_state.available_models = <<"opus", "haiku", "sonnet">>
    /\ app_state.model_index = 2

C31_WitnessUnlisted ==
    /\ set_model_arg = OtherModel
    /\ ~state_op.modified

----------------------------------------------------------------------------
\* Further properties of the main loop (Spec, SpecLive)

\* C35: every entry of the press record belongs to a button the edge tracker
\* records as held: when check_long_press is about to run on a connected
\* device, id in button_press_times implies input_state.buttons[id].
C35_PressRecordsAreHeld ==
    (pc = "long_press" /\ device) =>
        \A id \in DOMAIN button_press_times : input_state[id]

\* C39: at every iteration boundary of the main loop state.connected is true
\* if and only if the App holds a device handle.
C39_ConnectedIffDevice ==
    pc = "commands" => (connected <=> device)

\* An iteration boundary after a disconnect and a reconnect: the new edge
\* tracker does not know the button that was held throughout.
C39_Witness ==
    /\ pc = "commands"
    /\ device /\ connected
    /\ 6 \in held
    /\ 6 \in DOMAIN button_press_times
    /\ ~input_state[6]

\* C40: the recorded last-device-write time is advanced only by a loop step
\* that issued a write to the device: the time elapsed since the record
\* decreases only in a step that wrote, so a GIF tick without frames or an
\* update without a device does not restart the cooldown.
C40_RecordOnlyOnWrite ==
    [][last_device_write' < last_device_write => wrote'.src # "none"]_vars

\* C37: the lock-state check cannot be starved by input: in every execution
\* in which the loop keeps running, the loop comes to its lock check again
\* and again, also when a report arrives on every poll while the flag is set.
C37_LockCheckRecurs == []<>(pc = "lock_check")

\* C36: while screen_locked is true no animation frame is written to the
\* device: a GIF tick the main loop runs with the lock flag set returns no
\* frame (as it would with no animation cursors).
C36_NoFramesWhileLocked ==
    (gif_op.op = "tick" /\ screen_locked) => DOMAIN gif_op.frames = {}

----------------------------------------------------------------------------
\* Properties of the encoder debounce (SpecKnob)

\* C33: handle_encoder_press performs the encoder's action only if at least
\* 300 ms have passed since the last performed press of the same encoder, and
\* then it does; an ignored press leaves the debounce record as it was, and a
\* press of one encoder leaves the other encoders' records alone.
C33_DebouncePerEncoder ==
    [][enc_op'.op = "press" =>
         LET e == enc_op'.encoder IN
         /\ enc_op'.performed <=> since_action[e] >= ENCODER_DEBOUNCE
         /\ ~enc_op'.performed => last_encoder_press' = last_encoder_press
         /\ \A f \in EncoderSlots \ {e} :
               /\ since_action'[f] = since_action[f]
               /\ f \in DOMAIN last_encoder_press' <=> f \in DOMAIN last_encoder_press
               /\ f \in DOMAIN last_encoder_press =>
                     last_encoder_press'[f] = last_encoder_press[f]]_vars

\* A second press of encoder 1 was performed while encoder 2 was inside its
\* own debounce window.
C33_Witness ==
    /\ enc_op.op = "press"
    /\ enc_op.encoder = 1
    /\ enc_op.performed
    /\ ~enc_op.first
    /\ 2 \in DOMAIN last_encoder_press
    /\ last_encoder_press[2] < ENCODER_DEBOUNCE

\* A press inside the window was ignored.
C33_WitnessIgnored ==
    /\ enc_op.op = "press"
    /\ ~enc_op.performed
    /\ since_action[enc_op.encoder] > 0


\* C32: marking URLs as loading prevents duplicate loads: at any time at most
\* one background fetch task is in flight for a URL, whatever URLs the
\* buttons are configured with and however often redraw_all_buttons runs.
C32_OneFetchPerUrl == \A u \in Urls : tasks[u] <= 1

----------------------------------------------------------------------------
\* Properties of the cache mutexes (SpecLock)

\* C21: no mutex guarding animation-cache state is held across a blocking
\* fetch: while the main loop is inside the fetch of load_gif_image it holds
\* neither the animator's mutex nor GIF_CACHE's, and the background task that
\* holds the animator's mutex has its fetch behind it.
C21_NoLockAcrossFetch ==
    /\ MainFetching => (animator_mutex # "main" /\ static_mutex # "main")
    /\ animator_mutex = "task" =>
           (task_result.url # NoUrl /\ tasks[task_result.url] > 0)

============================================================================
